---- MODULE Spec2Model ----
(***************************************************************************)
(* Verification model of the sensirion_driver_adapters channel layer:      *)
(* MultiChannel transactions, the multi-driver wrapper (sequential and     *)
(* concurrent dispatch), I2cChannel.write_read and ShdlcChannel.write_read.*)
(***************************************************************************)
EXTENDS Integers, Sequences, FiniteSets, TLC

(* ----------------------------- bounds ---------------------------------- *)
\* number of sub-channels of the MultiChannel / drivers of the multi-driver
NumChannels == 3
\* write_read calls allowed per transaction in the model (beyond exhaustion)
MaxCalls == NumChannels + 2

\* longest byte sequence handed to the framing helpers
MaxPayloadLen == 4

\* longest enumerated byte sequence handed to the decoder
MaxDataLen == 5

\* most calls made on the SHDLC sensor mock and its transceiver
MaxMockOps == 4

\* most exchanges made through one I2C mock channel
MaxExchanges == 2

\* most with-blocks a caller opens on one MultiChannel
MaxTxns == 3

\* most brackets entered on one connection object
MaxBrackets == 2

\* most changes of the channel parameters of one I2C sensor mock
MaxUpdates == 1

\* most transfers handed to execute_transfer
MaxTransfers == 3

\* width of the integers held by a BitfieldContainer in the model
MaxBits == 6

Chans == 0..(NumChannels - 1)
\* Python None for an index-valued field
None == -1

(* ------------------------- MultiChannel state --------------------------- *)
VARIABLES
    channel_iterator,   \* MultiChannel._channel_iterator: None or next position
    active_channel,     \* MultiChannel._active_channel: None or channel index
    open,               \* the caller is inside the with-block of the MultiChannel
    body_exc,           \* exception propagating out of the with-body ("None" if none)
    chan_log,           \* per sub-channel: exchanges received since the last __enter__
    txn_calls,          \* write_read calls issued since the last __enter__
    txn_count,          \* with-blocks the caller has entered so far
    last                \* what the last operation did and what its caller observed

mcvars == <<channel_iterator, active_channel, open, body_exc, chan_log, txn_calls,
            txn_count, last>>

(* --------------------------- I2cChannel state ---------------------------- *)
VARIABLES
    i2c_crc,            \* I2cChannel._crc: "None" or a checksum function
    i2c_slave_address,  \* I2cChannel._slave_address
    i2c_args,           \* the arguments of the pending write_read call
    i2c_dev,            \* what the connection's device does during the call
    i2c_result          \* what the call did and what its caller observed

i2cvars == <<i2c_crc, i2c_slave_address, i2c_args, i2c_dev, i2c_result>>

(* -------------------------- ShdlcChannel state --------------------------- *)
VARIABLES
    sh_address,         \* ShdlcChannel._address
    sh_channel_delay,   \* ShdlcChannel._channel_delay
    sh_args,            \* the arguments of the pending write_read call
    sh_dev,             \* what the transceiver does during the call
    sh_result           \* what the call did and what its caller observed

shvars == <<sh_address, sh_channel_delay, sh_args, sh_dev, sh_result>>

(* ------------------------- multi-driver state --------------------------- *)
VARIABLES
    md_mode,        \* "seq" (__repeat__) or "par" (__co_repeat__), fixed at construction
    md_pc,          \* position of the caller inside the wrapped operation
    md_idx,         \* loop index: driver to invoke / call to submit / future to consume
    worker,         \* per channel: state of the driver call of this operation
    started,        \* per channel: driver calls started for this operation
    produced,       \* per channel: what the driver call produced
    results,        \* results gathered so far by the caller
    md_ret,         \* the tuple returned to the caller
    md_exc,         \* the failure delivered to the caller
    finish_order    \* channels in the order their driver calls completed

mdvars == <<md_mode, md_pc, md_idx, worker, started, produced, results, md_ret,
            md_exc, finish_order>>

\* the byte-framing helpers of I2cChannel applied to drawn inputs
VARIABLES
    fr_tx,          \* the bytes handed to build_tx_data / strip_protocol
    fr_cmd_width,   \* the cmd_width argument
    fr_crc,         \* the checksum function, "None" when not configured
    fr_tamper,      \* [at, delta]: one byte of the framed buffer changed in transit
    fr_pc,          \* position in the build / strip / pass sequence
    fr_framed,      \* what build_tx_data returned
    fr_wire,        \* the buffer handed to the stripping function
    fr_stripped,    \* outcome of stripping fr_wire
    fr_passed       \* outcome of strip_protocol on fr_tx itself
frvars == <<fr_tx, fr_cmd_width, fr_crc, fr_tamper, fr_pc, fr_framed, fr_wire,
            fr_stripped, fr_passed>>

\* TxData.pack and RxData.unpack applied to drawn inputs
VARIABLES
    cd_descriptor,  \* the descriptor shared by TxData and RxData
    cd_convert,     \* RxData's convert_to_int
    cd_data,        \* bytes handed to unpack_dynamic_sized, NoInput when none
    cd_values,      \* <<cmd_id, arguments...>> handed to pack, NoInput when none
    cd_pc,
    cd_init,        \* outcome of TxData(cmd_id, descriptor)
    cd_unpacked,    \* outcome of unpack_dynamic_sized(cd_data)
    cd_packed,      \* outcome of pack
    cd_round        \* outcome of unpack(pack(...))
cdvars == <<cd_descriptor, cd_convert, cd_data, cd_values, cd_pc, cd_init, cd_unpacked,
            cd_packed, cd_round>>

(* ------------------- SHDLC sensor mock and transceiver ------------------- *)
VARIABLES
    sm_queue,            \* ShdlcSensorMock._request_queue
    sm_expected_length,  \* ShdlcTransceiverMock._expected_length
    sm_written,          \* every (command, payload) pair written so far, in order
    sm_popped,           \* number of pairs taken off the queue so far
    sm_last,             \* what the last call did and what its caller observed
    sm_ops               \* calls made so far

smvars == <<sm_queue, sm_expected_length, sm_written, sm_popped, sm_last, sm_ops>>

(* ------------------------ I2C mock channel state -------------------------- *)
VARIABLES
    im_crc,           \* crc of the I2cChannel in use ("None" or a function)
    im_address,       \* slave_address of the I2cChannel in use
    im_mock_crc,      \* I2cSensorMock._crc
    im_i2c_address,   \* I2cSensorMock.i2c_address
    im_cmd_width,     \* I2cSensorMock._cmd_width
    im_queue,         \* I2cSensorMock._request_queue
    im_last_command,  \* I2cSensorMock._last_command
    im_result,        \* what the last call did and what its caller observed
    im_count,         \* exchanges made so far
    im_updates        \* changes of the mock's channel parameters made so far

imvars == <<im_crc, im_address, im_mock_crc, im_i2c_address, im_cmd_width, im_queue,
           im_last_command, im_result, im_count, im_updates>>

(* ------------------------- resource brackets ------------------------------ *)
VARIABLES
    br_kind,            \* "multi" (I2cMultiSensorBridgeConnection) or "provider"
    br_configs,         \* per configured serial port: the selected bridge ports
    br_links,           \* the serial ports that are open
    br_serial_ports,    \* _serial_ports / _shdlc_port: the ports the object holds
    br_proxies,         \* _proxies: the (serial port, bridge port) pairs
    br_sensor_bridges,  \* _sensor_bridges / _sensor_bridge
    br_powered,         \* the (serial port, bridge port) pairs with supply on
    br_pc,              \* "out" or "in" the with-block
    br_last,            \* what the last operation did and what its caller observed
    br_count            \* brackets entered so far

brvars == <<br_kind, br_configs, br_links, br_serial_ports, br_proxies, br_sensor_bridges,
            br_powered, br_pc, br_last, br_count>>

(* --------------------------- execute_transfer ----------------------------- *)
VARIABLES
    xf_transfers,   \* the transfers handed to execute_transfer
    xf_result       \* the calls made on the channel and what the caller observed

xfvars == <<xf_transfers, xf_result>>

(* ------------- threads calling MultiChannel.write_read -------------------- *)
VARIABLES
    mt_pc,        \* per thread: "idle", "fetched" (next() returned), "selected"
                  \* (the attribute is stored), "done"
    mt_selected,  \* per thread: the position next() handed to it
    mt_target,    \* per thread: the sub-channel it read from the attribute for its call
    mt_outcome    \* per thread: what its caller observed

mtvars == <<mt_pc, mt_selected, mt_target, mt_outcome>>

(* --------------------------- BitfieldContainer ---------------------------- *)
VARIABLES
    bf_value,     \* BitfieldContainer._int_value
    bf_last       \* what the last operation did and what its caller observed

bfvars == <<bf_value, bf_last>>

\* Sample argument bundles of write_read (all seven parameters).
ArgSamples ==
    { [tx_bytes |-> <<137>>, payload_offset |-> 1, response |-> "None",
       device_busy_delay |-> 0, post_processing_delay |-> 0,
       slave_address |-> None, ignore_errors |-> FALSE],
      [tx_bytes |-> <<36, 22, 3, 232>>, payload_offset |-> 2, response |-> ">H",
       device_busy_delay |-> 1, post_processing_delay |-> 5,
       slave_address |-> 68, ignore_errors |-> TRUE] }

NoArgs == [tx_bytes |-> <<>>, payload_offset |-> 0, response |-> "None",
           device_busy_delay |-> 0, post_processing_delay |-> 0,
           slave_address |-> None, ignore_errors |-> FALSE]

\* What a sub-channel's write_read does: returns a value or raises.
ChannelOutcomes ==
    { [kind |-> "return", val |-> "r1"], [kind |-> "return", val |-> "r2"],
      [kind |-> "raise", val |-> "ChannelError"] }

\* TxRxChannel.timeout of sub-channel i (distinct per channel).
ChannelTimeout(i) == 10 + i

\* next(self._channel_iterator): the position handed out, or the failure.
IterNextWrap(it) ==
    IF it = None THEN [ok |-> FALSE, exc |-> "TypeError", pos |-> None, it |-> it]
    ELSE [ok |-> TRUE, exc |-> "None", pos |-> it % NumChannels, it |-> it + 1]
IterNextNoneOk(it) ==
    IF it = None THEN [ok |-> TRUE, exc |-> "None", pos |-> 0, it |-> it]
    ELSE IF it >= NumChannels
         THEN [ok |-> FALSE, exc |-> "StopIteration", pos |-> None, it |-> it]
         ELSE [ok |-> TRUE, exc |-> "None", pos |-> it, it |-> it + 1]
IterNext(it) ==
    IF it = None THEN [ok |-> FALSE, exc |-> "TypeError", pos |-> None, it |-> it]
    ELSE IF it >= NumChannels
         THEN [ok |-> FALSE, exc |-> "StopIteration", pos |-> None, it |-> it]
         ELSE [ok |-> TRUE, exc |-> "None", pos |-> it, it |-> it + 1]

\* an iterator that starts behind the first channel
MC_enter_second == 0 + 1
\* MultiChannel.__enter__: a fresh iterator over the channels.
MC_enter == 0

\* MultiChannel.__exit__(exc_type, ...): new iterator, new active channel and
\* the value returned to the with statement.
MC_exit_keep_active(it, act, exc_type) ==
    [iterator |-> None, active |-> act, ret |-> (exc_type = "None")]
MC_exit_suppress(it, act, exc_type) ==
    [iterator |-> None, active |-> None, ret |-> TRUE]
MC_exit(it, act, exc_type) ==
    [iterator |-> None, active |-> None, ret |-> (exc_type = "None")]

\* Python's with statement: the exception the caller of the bracket observes
\* given the exception raised by the body and the return value of __exit__.
WithObserved(exc, exit_ret) ==
    IF exc # "None" /\ exit_ret THEN "None" ELSE exc

\* MultiChannel.write_read: select the next channel and forward the call.
\* sub is what the selected sub-channel does with the forwarded call.
MC_write_read_mangle(it, act, args, sub) ==
    LET n == IterNext(it) IN
    IF ~n.ok
    THEN [iterator |-> n.it, active |-> act, outcome |-> "raise", result |-> n.exc,
          forwarded |-> None, fwd_args |-> NoArgs]
    ELSE [iterator |-> n.it, active |-> n.pos, outcome |-> sub.kind, result |-> sub.val,
          forwarded |-> n.pos, fwd_args |-> [args EXCEPT !.slave_address = None]]
MC_write_read(it, act, args, sub) ==
    LET n == IterNext(it) IN
    IF ~n.ok
    THEN [iterator |-> n.it, active |-> act, outcome |-> "raise", result |-> n.exc,
          forwarded |-> None, fwd_args |-> NoArgs]
    ELSE [iterator |-> n.it, active |-> n.pos, outcome |-> sub.kind, result |-> sub.val,
          forwarded |-> n.pos, fwd_args |-> args]

\* MultiChannel.timeout
MC_timeout_first(act) == ChannelTimeout(0)
MC_timeout(act) ==
    IF act # None THEN ChannelTimeout(act) ELSE ChannelTimeout(0)

NoLast == [op |-> "init", nth |-> 0, args |-> NoArgs, outcome |-> "none",
           result |-> "None", forwarded |-> None, raised |-> "None",
           observed |-> "None", was_open |-> FALSE]

MCInit ==
    /\ channel_iterator = None
    /\ active_channel = None
    /\ open = FALSE
    /\ body_exc = "None"
    /\ chan_log = [i \in Chans |-> <<>>]
    /\ txn_calls = 0
    /\ txn_count = 0
    /\ last = NoLast

\* with multi_channel: ...   (entering the bracket)
Enter ==
    /\ ~open
    /\ txn_count < MaxTxns
    /\ txn_count' = txn_count + 1
    /\ channel_iterator' = MC_enter
    /\ open' = TRUE
    /\ body_exc' = "None"
    /\ chan_log' = [i \in Chans |-> <<>>]
    /\ txn_calls' = 0
    /\ last' = [NoLast EXCEPT !.op = "enter"]
    /\ UNCHANGED <<active_channel, mdvars, i2cvars, shvars, frvars, cdvars,
                   smvars, imvars, brvars, xfvars, mtvars, bfvars>>

\* A call of MultiChannel.write_read, inside or outside a bracket.  A failure
\* raised inside the with-body either is handled by the body or leaves it.
WriteRead ==
    /\ body_exc = "None"
    /\ txn_calls < MaxCalls
    /\ \E args \in ArgSamples, sub \in ChannelOutcomes, handled \in BOOLEAN :
         LET r == MC_write_read(channel_iterator, active_channel, args, sub) IN
         /\ channel_iterator' = r.iterator
         /\ active_channel' = r.active
         /\ chan_log' = IF r.forwarded = None THEN chan_log
                        ELSE [chan_log EXCEPT ![r.forwarded] =
                                 Append(@, [args |-> r.fwd_args, kind |-> sub.kind,
                                            val |-> sub.val])]
         /\ txn_calls' = txn_calls + 1
         /\ body_exc' = IF open /\ r.outcome = "raise" /\ ~handled
                        THEN r.result ELSE "None"
         /\ last' = [NoLast EXCEPT !.op = "write_read", !.nth = txn_calls + 1,
                                   !.args = args, !.outcome = r.outcome,
                                   !.result = r.result, !.forwarded = r.forwarded,
                                   !.was_open = open]
    /\ UNCHANGED <<open, txn_count, mdvars, i2cvars, shvars, frvars, cdvars,
                   smvars, imvars, brvars, xfvars, mtvars, bfvars>>

\* The with-body raises a failure of its own.
BodyRaise ==
    /\ open
    /\ body_exc = "None"
    /\ body_exc' = "BodyError"
    /\ last' = [NoLast EXCEPT !.op = "body_raise", !.raised = "BodyError"]
    /\ UNCHANGED <<channel_iterator, active_channel, open, chan_log, txn_calls, txn_count, mdvars, i2cvars, shvars, frvars, cdvars,
                   smvars, imvars, brvars, xfvars, mtvars, bfvars>>

\* Leaving the bracket: __exit__ runs with the exception of the body (if any)
\* and the with statement re-raises unless __exit__ returned true.
Exit ==
    /\ open
    /\ LET x == MC_exit(channel_iterator, active_channel, body_exc) IN
         /\ channel_iterator' = x.iterator
         /\ active_channel' = x.active
         /\ last' = [NoLast EXCEPT !.op = "exit", !.raised = body_exc,
                                   !.observed = WithObserved(body_exc, x.ret),
                                   !.was_open = TRUE]
    /\ open' = FALSE
    /\ body_exc' = "None"
    /\ UNCHANGED <<chan_log, txn_calls, txn_count, mdvars, i2cvars, shvars, frvars, cdvars,
                   smvars, imvars, brvars, xfvars, mtvars, bfvars>>

(* --------------------------- multi-driver -------------------------------- *)
\* What one driver call does: returns a value or raises.
DriverOutcomes ==
    { [kind |-> "return", val |-> "a"], [kind |-> "return", val |-> "b"],
      [kind |-> "raise", val |-> "DriverError"] }

NoFailure == [chan |-> None, exc |-> "None", pending |-> 0]

Done == {"ok", "failed"}

\* MultiChannelWrapper.__init__: one driver per channel, nothing running.
MDIdle(mode) ==
    /\ md_mode = mode
    /\ md_pc = "idle"
    /\ md_idx = 0
    /\ worker = [i \in Chans |-> "none"]
    /\ started = [i \in Chans |-> 0]
    /\ produced = [i \in Chans |-> "NotRun"]
    /\ results = <<>>
    /\ md_ret = <<>>
    /\ md_exc = NoFailure
    /\ finish_order = <<>>

\* tuple(map(lambda x: x.result(), futures)): the future consumed at step k.
FutureAtCompleted(k, order) == IF Len(order) > k THEN order[k + 1] ELSE k
FutureAtReversed(k, order) == NumChannels - 1 - k
FutureAt(k, order) == k

\* ThreadPoolExecutor.__exit__ -> shutdown(wait=True): every worker has finished.
ExecutorNoWait(w) == TRUE
ExecutorJoined(w) == \A i \in Chans : w[i] \in Done

\* results.append(fun(...)) / the tuple built from the futures
Gather(rs, v) == Append(rs, v)

\* --- sequential mode: MultiChannelWrapper.__repeat__ ---
\* with me.channel:
SeqStart ==
    /\ md_mode = "seq" /\ md_pc = "idle" /\ ~open
    /\ channel_iterator' = MC_enter
    /\ open' = TRUE
    /\ md_pc' = "seq_loop"
    /\ md_idx' = 0
    /\ worker' = [i \in Chans |-> "none"]
    /\ started' = [i \in Chans |-> 0]
    /\ produced' = [i \in Chans |-> "NotRun"]
    /\ results' = <<>>
    /\ md_ret' = <<>>
    /\ md_exc' = NoFailure
    /\ finish_order' = <<>>
    /\ UNCHANGED <<md_mode, active_channel, body_exc, chan_log, txn_calls, txn_count, last, i2cvars, shvars, frvars, cdvars,
                   smvars, imvars, brvars, xfvars, mtvars, bfvars>>

\* for driver in me._drivers: results.append(fun(*args, **kwargs))
SeqCallKeepGoing ==
    /\ md_mode = "seq" /\ md_pc = "seq_loop" /\ md_idx < NumChannels
    /\ \E o \in DriverOutcomes :
         /\ worker' = [worker EXCEPT ![md_idx] = IF o.kind = "return" THEN "ok" ELSE "failed"]
         /\ produced' = [produced EXCEPT ![md_idx] = o.val]
         /\ IF o.kind = "return"
            THEN /\ results' = Gather(results, o.val)
                 /\ md_idx' = md_idx + 1
                 /\ md_exc' = md_exc
                 /\ md_pc' = IF md_idx + 1 = NumChannels THEN "seq_exit" ELSE "seq_loop"
            ELSE /\ md_exc' = [chan |-> md_idx, exc |-> o.val, pending |-> 0]
                 /\ md_idx' = md_idx + 1
                 /\ md_pc' = IF md_idx + 1 = NumChannels THEN "seq_exit" ELSE "seq_loop"
                 /\ UNCHANGED results
    /\ started' = [started EXCEPT ![md_idx] = @ + 1]
    /\ finish_order' = Append(finish_order, md_idx)
    /\ UNCHANGED <<md_mode, md_ret, mcvars, i2cvars, shvars, frvars, cdvars,
                   smvars, imvars, brvars, xfvars, mtvars, bfvars>>
SeqCall ==
    /\ md_mode = "seq" /\ md_pc = "seq_loop" /\ md_idx < NumChannels
    /\ \E o \in DriverOutcomes :
         /\ worker' = [worker EXCEPT ![md_idx] = IF o.kind = "return" THEN "ok" ELSE "failed"]
         /\ produced' = [produced EXCEPT ![md_idx] = o.val]
         /\ IF o.kind = "return"
            THEN /\ results' = Gather(results, o.val)
                 /\ md_idx' = md_idx + 1
                 /\ md_exc' = md_exc
                 /\ md_pc' = IF md_idx + 1 = NumChannels THEN "seq_exit" ELSE "seq_loop"
            ELSE /\ md_exc' = [chan |-> md_idx, exc |-> o.val, pending |-> 0]
                 /\ md_pc' = "seq_exit"
                 /\ UNCHANGED <<results, md_idx>>
    /\ started' = [started EXCEPT ![md_idx] = @ + 1]
    /\ finish_order' = Append(finish_order, md_idx)
    /\ UNCHANGED <<md_mode, md_ret, mcvars, i2cvars, shvars, frvars, cdvars,
                   smvars, imvars, brvars, xfvars, mtvars, bfvars>>

\* leaving the with block, then return tuple(results) or the propagating failure
SeqExit ==
    /\ md_mode = "seq" /\ md_pc = "seq_exit"
    /\ LET x == MC_exit(channel_iterator, active_channel, md_exc.exc) IN
         /\ channel_iterator' = x.iterator
         /\ active_channel' = x.active
         /\ IF WithObserved(md_exc.exc, x.ret) = "None"
            THEN md_pc' = "returned" /\ md_ret' = results
            ELSE md_pc' = "raised" /\ md_ret' = <<>>
    /\ open' = FALSE
    /\ UNCHANGED <<md_mode, md_idx, worker, started, produced, results, md_exc,
                   finish_order, body_exc, chan_log, txn_calls, txn_count, last, i2cvars, shvars, frvars, cdvars,
                   smvars, imvars, brvars, xfvars, mtvars, bfvars>>

\* --- concurrent mode: MultiChannelWrapper.__co_repeat__ ---
\* with me.channel: with ThreadPoolExecutor(max_workers=channel_count) as executor:
CoStart ==
    /\ md_mode = "par" /\ md_pc = "idle" /\ ~open
    /\ channel_iterator' = MC_enter
    /\ open' = TRUE
    /\ md_pc' = "submit"
    /\ md_idx' = 0
    /\ worker' = [i \in Chans |-> "none"]
    /\ started' = [i \in Chans |-> 0]
    /\ produced' = [i \in Chans |-> "NotRun"]
    /\ results' = <<>>
    /\ md_ret' = <<>>
    /\ md_exc' = NoFailure
    /\ finish_order' = <<>>
    /\ UNCHANGED <<md_mode, active_channel, body_exc, chan_log, txn_calls, txn_count, last, i2cvars, shvars, frvars, cdvars,
                   smvars, imvars, brvars, xfvars, mtvars, bfvars>>

\* futures = [executor.submit(fun, ...) for fun in calls]: one submit per step;
\* the worker thread of the submitted call starts running.
Submit ==
    /\ md_mode = "par" /\ md_pc = "submit" /\ md_idx < NumChannels
    /\ worker' = [worker EXCEPT ![md_idx] = "running"]
    /\ started' = [started EXCEPT ![md_idx] = @ + 1]
    /\ IF md_idx + 1 = NumChannels
       THEN md_pc' = "collect" /\ md_idx' = 0
       ELSE md_pc' = "submit" /\ md_idx' = md_idx + 1
    /\ UNCHANGED <<md_mode, produced, results, md_ret, md_exc, finish_order, mcvars,
                   i2cvars, shvars, frvars, cdvars,
                   smvars, imvars, brvars, xfvars, mtvars, bfvars>>

\* A worker thread completes the driver call of channel i.
WorkerFinish(i) ==
    /\ md_mode = "par" /\ worker[i] = "running"
    /\ \E o \in DriverOutcomes :
         /\ worker' = [worker EXCEPT ![i] = IF o.kind = "return" THEN "ok" ELSE "failed"]
         /\ produced' = [produced EXCEPT ![i] = o.val]
    /\ finish_order' = Append(finish_order, i)
    /\ UNCHANGED <<md_mode, md_pc, md_idx, started, results, md_ret, md_exc, mcvars,
                   i2cvars, shvars, frvars, cdvars,
                   smvars, imvars, brvars, xfvars, mtvars, bfvars>>

\* x.result() on the next future: blocks until that worker is done, then
\* yields its value or raises its failure.
Collect ==
    /\ md_mode = "par" /\ md_pc = "collect" /\ md_idx < NumChannels
    /\ LET c == FutureAt(md_idx, finish_order) IN
         /\ worker[c] \in Done
         /\ IF worker[c] = "ok"
            THEN /\ results' = Gather(results, produced[c])
                 /\ md_idx' = md_idx + 1
                 /\ md_exc' = md_exc
                 /\ md_pc' = IF md_idx + 1 = NumChannels THEN "shutdown" ELSE "collect"
            ELSE /\ md_exc' = [chan |-> c, exc |-> produced[c],
                               pending |-> Cardinality({j \in Chans : worker[j] = "running"})]
                 /\ md_pc' = "shutdown"
                 /\ UNCHANGED <<results, md_idx>>
    /\ UNCHANGED <<md_mode, worker, started, produced, md_ret, finish_order, mcvars,
                   i2cvars, shvars, frvars, cdvars,
                   smvars, imvars, brvars, xfvars, mtvars, bfvars>>

\* Leaving both with blocks: the executor joins its workers, the MultiChannel
\* closes, and the tuple is returned or the failure propagates.
Shutdown ==
    /\ md_mode = "par" /\ md_pc = "shutdown"
    /\ ExecutorJoined(worker)
    /\ LET x == MC_exit(channel_iterator, active_channel, md_exc.exc) IN
         /\ channel_iterator' = x.iterator
         /\ active_channel' = x.active
         /\ IF WithObserved(md_exc.exc, x.ret) = "None"
            THEN md_pc' = "returned" /\ md_ret' = results
            ELSE md_pc' = "raised" /\ md_ret' = <<>>
    /\ open' = FALSE
    /\ UNCHANGED <<md_mode, md_idx, worker, started, produced, results, md_exc,
                   finish_order, body_exc, chan_log, txn_calls, txn_count, last, i2cvars, shvars, frvars, cdvars,
                   smvars, imvars, brvars, xfvars, mtvars, bfvars>>

\* The caller has the outcome and may issue the next operation.
MDNextOp ==
    /\ md_pc \in {"returned", "raised"}
    /\ md_pc' = "idle"
    /\ UNCHANGED <<md_mode, md_idx, worker, started, produced, results, md_ret,
                   md_exc, finish_order, mcvars, i2cvars, shvars, frvars, cdvars,
                   smvars, imvars, brvars, xfvars, mtvars, bfvars>>

(* ------------------------- bytes and checksums --------------------------- *)
\* Python None where a bytes object or a tuple is expected.
PyNone == <<-1>>

Min(a, b) == IF a < b THEN a ELSE b
Max(a, b) == IF a > b THEN a ELSE b

RECURSIVE Xor(_, _)
Xor(a, b) ==
    IF a = 0 THEN b
    ELSE IF b = 0 THEN a
    ELSE ((a + b) % 2) + 2 * Xor(a \div 2, b \div 2)

\* CrcCalculator(8, 0x31, 0xff, 0x0): polynomial and initial value
CrcPolynomial == 49
CrcInitValue == 255

RECURSIVE Crc8Shift(_, _)
Crc8Shift(c, n) ==
    IF n = 0 THEN c
    ELSE Crc8Shift(IF c >= 128 THEN Xor((c * 2) % 256, CrcPolynomial)
                               ELSE (c * 2) % 256, n - 1)

Crc8(a, b) == Crc8Shift(Xor(Crc8Shift(Xor(CrcInitValue, a), 8), b), 8)

\* The pluggable checksum functions of the model: "crc8" is the calculator the
\* application configures, "xor8" a second function of two bytes; "None" is
\* the absent calculator.
CrcFunctions == {"crc8", "xor8"}
CrcApply(crc, a, b) == IF crc = "crc8" THEN Crc8(a, b) ELSE Xor(a, b)

(* ---------------------- I2cChannel framing helpers ----------------------- *)
\* the loop of build_tx_data over the payload bytes (i is the 0-based index)
RECURSIVE FramePayload(_, _, _, _)
FramePayload(p, i, crc, acc) ==
    IF i >= Len(p) THEN acc
    ELSE LET withByte == Append(acc, p[i + 1]) IN
         FramePayload(p, i + 1, crc,
             IF crc # "None" /\ i % 2 = 1
             THEN Append(withByte, CrcApply(crc, p[i], p[i + 1]))
             ELSE withByte)

\* I2cChannel.build_tx_data(tx_data, cmd_width, crc)
build_tx_data_frame_command(tx_data, cmd_width, crc) ==
    IF tx_data = PyNone \/ tx_data = <<>> THEN PyNone
    ELSE FramePayload(tx_data, 0, crc, <<>>)
build_tx_data(tx_data, cmd_width, crc) ==
    IF tx_data = PyNone \/ tx_data = <<>> THEN PyNone
    ELSE LET w == Min(cmd_width, Len(tx_data)) IN
         FramePayload(SubSeq(tx_data, w + 1, Len(tx_data)), 0, crc,
                      SubSeq(tx_data, 1, w))

ChecksumOk(data) ==
    [ok |-> TRUE, data |-> data, exc |-> "None", received |-> 0, expected |-> 0,
     buffer |-> <<>>]
StripFailure(exc) ==
    [ok |-> FALSE, data |-> PyNone, exc |-> exc, received |-> 0, expected |-> 0,
     buffer |-> <<>>]

\* the loop of strip_and_check_crc (i is the 0-based index)
RECURSIVE StripLoopSwapped(_, _, _, _)
StripLoopSwapped(data, i, crc, acc) ==
    IF i >= Len(data)
    THEN ChecksumOk(IF Len(acc) > 0 THEN acc ELSE PyNone)
    ELSE IF i % 3 = 2
         THEN LET received_crc == data[i + 1]
                  expected_crc == CrcApply(crc, data[i - 1], data[i])
              IN IF received_crc # expected_crc
                 THEN [ok |-> FALSE, data |-> PyNone, exc |-> "I2cChecksumError",
                       received |-> expected_crc, expected |-> received_crc,
                       buffer |-> data]
                 ELSE StripLoopSwapped(data, i + 1, crc, acc)
         ELSE StripLoopSwapped(data, i + 1, crc, Append(acc, data[i + 1]))
RECURSIVE StripLoopUnchecked(_, _, _, _)
StripLoopUnchecked(data, i, crc, acc) ==
    IF i >= Len(data)
    THEN ChecksumOk(IF Len(acc) > 0 THEN acc ELSE PyNone)
    ELSE IF i % 3 = 2
         THEN StripLoopUnchecked(data, i + 1, crc, acc)
         ELSE StripLoopUnchecked(data, i + 1, crc, Append(acc, data[i + 1]))
RECURSIVE StripLoop(_, _, _, _)
StripLoop(data, i, crc, acc) ==
    IF i >= Len(data)
    THEN ChecksumOk(IF Len(acc) > 0 THEN acc ELSE PyNone)
    ELSE IF i % 3 = 2
         THEN LET received_crc == data[i + 1]
                  expected_crc == CrcApply(crc, data[i - 1], data[i])
              IN IF received_crc # expected_crc
                 THEN [ok |-> FALSE, data |-> PyNone, exc |-> "I2cChecksumError",
                       received |-> received_crc, expected |-> expected_crc,
                       buffer |-> data]
                 ELSE StripLoop(data, i + 1, crc, acc)
         ELSE StripLoop(data, i + 1, crc, Append(acc, data[i + 1]))

\* I2cChannel.strip_and_check_crc(data, crc)
strip_and_check_crc_keep_all(data, crc) ==
    IF data = PyNone THEN StripFailure("TypeError")
    ELSE ChecksumOk(IF Len(data) > 0 THEN data ELSE PyNone)
strip_and_check_crc(data, crc) ==
    IF data = PyNone THEN StripFailure("TypeError")
    ELSE StripLoop(data, 0, crc, <<>>)

\* I2cChannel.strip_protocol(data)
strip_protocol_no_early_return(data, crc) ==
    IF data = PyNone THEN StripFailure("TypeError")
    ELSE IF crc = "None"
    THEN IF Len(data) >= 3 THEN StripFailure("TypeError")
         ELSE ChecksumOk(IF Len(data) > 0 THEN data ELSE PyNone)
    ELSE strip_and_check_crc(data, crc)
strip_protocol(data, crc) ==
    IF crc = "None" THEN ChecksumOk(data)
    ELSE IF data = PyNone THEN StripFailure("TypeError")
    ELSE strip_and_check_crc(data, crc)

(* ------------------------------ RxData ----------------------------------- *)
\* A descriptor is its byte order and its fields; a field is a format
\* character with an optional count (NoLen when the count is absent).
NoLen == -1
Field(len, code) == [len |-> len, code |-> code]

\* RxData(descriptor, convert_to_int); NoResponse stands for response=None
RxData(order, fields, convert_to_int) ==
    [isNone |-> FALSE, order |-> order, fields |-> fields,
     convert_to_int |-> convert_to_int]
NoResponse ==
    [isNone |-> TRUE, order |-> ">", fields |-> <<>>, convert_to_int |-> FALSE]

\* struct.calcsize of one format character
ElemSize(code) ==
    CASE code \in {"B", "b", "?", "s", "c", "x"} -> 1
      [] code \in {"H", "h"} -> 2
      [] code \in {"I", "i", "L", "l", "f"} -> 4
      [] OTHER -> 8

\* struct.calcsize(descriptor)
RECURSIVE CalcSize(_)
CalcSize(fields) ==
    IF fields = <<>> THEN 0
    ELSE (IF Head(fields).len = NoLen THEN 1 ELSE Head(fields).len)
             * ElemSize(Head(fields).code)
         + CalcSize(Tail(fields))

\* RxData.rx_length
rx_length(response) == CalcSize(response.fields)

\* the format characters RxData.field_match recognises
FieldCodes == {"h", "H", "b", "B", "i", "I", "?", "s", "q", "Q", "f", "d"}
SignedCodes == {"b", "h", "i", "l", "q"}
FloatCodes == {"f", "d"}

\* RxData._contains_array: field_match.search(descriptor) is not None; the
\* count of field_match is optional, so any recognised field character matches.
contains_array(response) ==
    \E k \in 1..Len(response.fields) : response.fields[k].code \in FieldCodes

\* unsigned integer of a byte string in the descriptor's byte order
RECURSIVE BytesToInt(_, _)
BytesToInt(order, b) ==
    IF b = <<>> THEN 0
    ELSE IF order = ">"
         THEN BytesToInt(order, SubSeq(b, 1, Len(b) - 1)) * 256 + b[Len(b)]
         ELSE b[1] + 256 * BytesToInt(order, Tail(b))

RECURSIVE Pow2(_)
Pow2(n) == IF n = 0 THEN 1 ELSE 2 * Pow2(n - 1)

RECURSIVE Reverse(_)
Reverse(b) == IF b = <<>> THEN <<>> ELSE Append(Reverse(Tail(b)), Head(b))

\* the value struct decodes from the bytes b of one element: two's complement
\* for the signed formats, a truth value (0 or 1) for '?', and for the float
\* formats the IEEE bits, most significant byte first
DecodeElem(order, code, b) ==
    IF code \in FloatCodes THEN (IF order = ">" THEN b ELSE Reverse(b))
    ELSE IF code = "?" THEN (IF \E j \in 1..Len(b) : b[j] # 0 THEN 1 ELSE 0)
    ELSE IF code \in SignedCodes /\ b # <<>> /\ b[IF order = ">" THEN 1 ELSE Len(b)] >= 128
    THEN -BytesToInt(order, [j \in 1..Len(b) |-> 255 - b[j]]) - 1
    ELSE BytesToInt(order, b)

\* the n elements of width size starting at 0-based position pos
ElementsAt(order, code, n, size, data, pos) ==
    [e \in 1..n |->
        DecodeElem(order, code,
                   SubSeq(data, pos + (e - 1) * size + 1, pos + e * size))]

\* array_to_integer(element_bit_width, data)
RECURSIVE array_to_integer(_, _)
array_to_integer_last(element_bit_width, data) ==
    IF data = <<>> THEN 0 ELSE data[Len(data)]
array_to_integer(element_bit_width, data) ==
    IF data = <<>> THEN 0
    ELSE LET x == array_to_integer(element_bit_width, SubSeq(data, 1, Len(data) - 1))
             y == data[Len(data)]
         IN \* (x << width) | y: a negative y has every bit from the width up set
            IF y < 0 \/ x = 0 THEN y ELSE x * Pow2(element_bit_width) + y

Decoded(vals) == [ok |-> TRUE, exc |-> "None", vals |-> vals]
DecodeFailure(exc) == [ok |-> FALSE, exc |-> exc, vals |-> <<>>]

IntVal(n) == [t |-> "int", v |-> <<n>>]
ArrVal(a) == [t |-> "arr", v |-> a]
StrVal(b) == [t |-> "str", v |-> b]
BytesVal(b) == [t |-> "bytes", v |-> b]
FloatVal(bits) == [t |-> "float", v |-> bits]

\* bytes.decode(): strict UTF-8, i is the 1-based position
RECURSIVE Utf8Decode(_, _, _)
Utf8Decode(b, i, acc) ==
    IF i > Len(b) THEN [ok |-> TRUE, v |-> acc]
    ELSE
      LET c == b[i]
          cont(j, lo, hi) == i + j <= Len(b) /\ b[i + j] >= lo /\ b[i + j] <= hi
      IN
      IF c < 128 THEN Utf8Decode(b, i + 1, Append(acc, c))
      ELSE IF c >= 194 /\ c <= 223 /\ cont(1, 128, 191)
      THEN Utf8Decode(b, i + 2, Append(acc, (c - 192) * 64 + (b[i + 1] - 128)))
      ELSE IF /\ c >= 224 /\ c <= 239
              /\ cont(1, IF c = 224 THEN 160 ELSE 128, IF c = 237 THEN 159 ELSE 191)
              /\ cont(2, 128, 191)
      THEN Utf8Decode(b, i + 3,
               Append(acc, (c - 224) * 4096 + (b[i + 1] - 128) * 64 + (b[i + 2] - 128)))
      ELSE IF /\ c >= 240 /\ c <= 244
              /\ cont(1, IF c = 240 THEN 144 ELSE 128, IF c = 244 THEN 143 ELSE 191)
              /\ cont(2, 128, 191) /\ cont(3, 128, 191)
      THEN Utf8Decode(b, i + 4,
               Append(acc, (c - 240) * 262144 + (b[i + 1] - 128) * 4096
                           + (b[i + 2] - 128) * 64 + (b[i + 3] - 128)))
      ELSE [ok |-> FALSE, v |-> <<>>]

\* the scan of a counted field: elements up to the declared maximum, the end
\* of the data or, for a string, the first zero byte
RECURSIVE FieldLenStopAtZero(_, _, _, _)
FieldLenStopAtZero(data, i, hi, is_string) ==
    IF i >= hi THEN 0
    ELSE IF data[i + 1] = 0 THEN 0
    ELSE 1 + FieldLenStopAtZero(data, i + 1, hi, is_string)
RECURSIVE FieldLen(_, _, _, _)
FieldLen(data, i, hi, is_string) ==
    IF i >= hi THEN 0
    ELSE IF data[i + 1] = 0 /\ is_string THEN 0
    ELSE 1 + FieldLen(data, i + 1, hi, is_string)

\* the value of a field without count
FixedVal(order, code, b) ==
    IF code \in {"s", "c"} THEN BytesVal(b)
    ELSE IF code \in FloatCodes THEN FloatVal(DecodeElem(order, code, b))
    ELSE IntVal(DecodeElem(order, code, b))

\* data_pos += elem_size, also after a counted field of n elements
AdvanceAfterCounted(elem_size, n) == elem_size

\* struct.unpack_from succeeds: the buffer holds need bytes at offset pos
UnpackFromFits(data, pos, need) == pos <= Len(data) /\ Len(data) - pos >= need

\* the while loop of RxData.unpack_dynamic_sized, field k at data_pos
RECURSIVE DynamicLoop(_, _, _, _, _)
DynamicLoop(response, k, data_pos, data, unpacked) ==
    IF k > Len(response.fields) THEN Decoded(unpacked)
    ELSE IF response.fields[k].code \notin FieldCodes THEN Decoded(unpacked)
    ELSE IF data = PyNone THEN DecodeFailure("TypeError")
    ELSE
      LET f == response.fields[k]
          elem_size == ElemSize(f.code)
          is_string == f.code = "s"
      IN
      IF f.len # NoLen
      THEN LET field_len == FieldLen(data, data_pos,
                                     Min(data_pos + elem_size * f.len, Len(data)),
                                     is_string)
               n == field_len \div elem_size
               raw == SubSeq(data, data_pos + 1, data_pos + n)
           IN
           IF ~UnpackFromFits(data, data_pos, n * elem_size)
           THEN DecodeFailure("struct.error")
           ELSE IF response.convert_to_int
           THEN IF is_string \/ (f.code \in FloatCodes /\ n > 0)
                THEN DecodeFailure("TypeError")
                ELSE DynamicLoop(response, k + 1, data_pos + AdvanceAfterCounted(elem_size, n),
                        data,
                        Append(unpacked,
                            IntVal(array_to_integer(elem_size * 8,
                                ElementsAt(response.order, f.code, n, elem_size, data,
                                           data_pos)))))
           ELSE IF is_string
           THEN IF ~Utf8Decode(raw, 1, <<>>).ok
                THEN DecodeFailure("UnicodeDecodeError")
                ELSE DynamicLoop(response, k + 1, data_pos + AdvanceAfterCounted(elem_size, n),
                                 data,
                                 Append(unpacked, StrVal(Utf8Decode(raw, 1, <<>>).v)))
           ELSE DynamicLoop(response, k + 1, data_pos + AdvanceAfterCounted(elem_size, n),
                    data,
                    Append(unpacked,
                        ArrVal(ElementsAt(response.order, f.code, n, elem_size, data,
                                          data_pos))))
      ELSE IF ~UnpackFromFits(data, data_pos, elem_size)
           THEN DecodeFailure("struct.error")
           ELSE DynamicLoop(response, k + 1, data_pos + elem_size, data,
                    Append(unpacked,
                        FixedVal(response.order, f.code,
                                 SubSeq(data, data_pos + 1, data_pos + elem_size))))

\* RxData.unpack_dynamic_sized(data)
unpack_dynamic_sized(response, data) == DynamicLoop(response, 1, 0, data, <<>>)

\* struct.unpack(descriptor, data) over the fields field_match does not
\* recognise: every element is one value of the flat result, pad bytes none
RECURSIVE StaticLoop(_, _, _, _, _, _)
StaticLoop(order, fields, k, data, pos, acc) ==
    IF k > Len(fields) THEN acc
    ELSE LET f == fields[k]
             n == IF f.len = NoLen THEN 1 ELSE f.len
             size == ElemSize(f.code)
         IN StaticLoop(order, fields, k + 1, data, pos + n * size,
                IF f.code = "x" THEN acc
                ELSE acc \o [e \in 1..n |->
                         FixedVal(order, f.code,
                             SubSeq(data, pos + (e - 1) * size + 1, pos + e * size))])

\* RxData.unpack(data)
unpack(response, data) ==
    IF contains_array(response) THEN unpack_dynamic_sized(response, data)
    ELSE IF data = PyNone THEN DecodeFailure("TypeError")
    ELSE IF Len(data) # rx_length(response) THEN DecodeFailure("struct.error")
    ELSE Decoded(StaticLoop(response.order, response.fields, 1, data, 0, <<>>))

(* ------------------------------ TxData ----------------------------------- *)
\* TxData(cmd_id, descriptor); the descriptor is its byte order and fields
TxData(cmd_id, order, fields) ==
    [cmd_id |-> cmd_id, order |-> order, fields |-> fields]

\* re.findall(string_match, descriptor)
StringFields(fields) == { k \in 1..Len(fields) : fields[k].code = "s" }

\* the failure of TxData.__init__, "None" when the object is constructed
TxDataInitExc(fields) ==
    IF StringFields(fields) = {} THEN "None"
    ELSE IF Cardinality(StringFields(fields)) > 1 THEN "NotImplementedError"
    ELSE IF fields[CHOOSE k \in StringFields(fields) : TRUE].len = NoLen
    THEN "ValueError"
    ELSE "None"

\* TxData(cmd_id, descriptor): the constructed object or the failure raised
TxDataInit(cmd_id, order, fields) ==
    IF TxDataInitExc(fields) # "None"
    THEN [ok |-> FALSE, exc |-> TxDataInitExc(fields), tx |-> TxData(cmd_id, order, fields)]
    ELSE [ok |-> TRUE, exc |-> "None", tx |-> TxData(cmd_id, order, fields)]

\* TxData._string_len
string_len(fields) ==
    IF Cardinality(StringFields(fields)) = 1
    THEN fields[CHOOSE k \in StringFields(fields) : TRUE].len
    ELSE 0

\* TxData.command_width: 1 when the descriptor starts with '>B', else 2
command_width(tx) ==
    IF tx.order = ">" /\ Len(tx.fields) > 0 /\ tx.fields[1] = Field(NoLen, "B")
    THEN 1 ELSE 2

\* str.encode(): UTF-8 of a sequence of code points
RECURSIVE Utf8Encode(_)
Utf8Encode(cps) ==
    IF cps = <<>> THEN [ok |-> TRUE, v |-> <<>>]
    ELSE LET c == Head(cps)
             rest == Utf8Encode(Tail(cps))
             enc == IF c < 128 THEN <<c>>
                    ELSE IF c < 2048 THEN <<192 + (c \div 64), 128 + (c % 64)>>
                    ELSE IF c < 65536
                    THEN <<224 + (c \div 4096), 128 + ((c \div 64) % 64), 128 + (c % 64)>>
                    ELSE <<240 + (c \div 262144), 128 + ((c \div 4096) % 64),
                           128 + ((c \div 64) % 64), 128 + (c % 64)>>
         IN IF (c >= 55296 /\ c <= 57343) \/ ~rest.ok
            THEN [ok |-> FALSE, v |-> <<>>]
            ELSE [ok |-> TRUE, v |-> enc \o rest.v]

PackOk(data) == [ok |-> TRUE, exc |-> "None", data |-> data]
PackFailure(exc) == [ok |-> FALSE, exc |-> exc, data |-> <<>>]

\* TxData._string_to_bytes(string_param): truncate to _string_len characters,
\* then encode
string_to_bytes_reject_long(slen, cps) ==
    IF slen <= 0 THEN PackFailure("AssertionError")
    ELSE IF Len(cps) > slen THEN PackFailure("ValueError")
    ELSE IF ~Utf8Encode(cps).ok THEN PackFailure("UnicodeEncodeError")
    ELSE PackOk(Utf8Encode(cps).v)
string_to_bytes(slen, cps) ==
    IF slen <= 0 THEN PackFailure("AssertionError")
    ELSE LET cut == SubSeq(cps, 1, Min(Len(cps), slen)) IN
         IF ~Utf8Encode(cut).ok THEN PackFailure("UnicodeEncodeError")
         ELSE PackOk(Utf8Encode(cut).v)

\* the loop of pack over argument_list: strings become bytes, lists and
\* tuples are spliced in, everything else is taken as it is
RECURSIVE PackArgs(_, _, _)
PackArgs(args, slen, acc) ==
    IF args = <<>> THEN [ok |-> TRUE, exc |-> "None", items |-> acc]
    ELSE LET a == Head(args) IN
         IF a.t = "str"
         THEN LET b == string_to_bytes(slen, a.v) IN
              IF ~b.ok THEN [ok |-> FALSE, exc |-> b.exc, items |-> <<>>]
              ELSE PackArgs(Tail(args), slen, Append(acc, BytesVal(b.data)))
         ELSE IF a.t = "arr"
         THEN PackArgs(Tail(args), slen, acc \o [e \in 1..Len(a.v) |-> IntVal(a.v[e])])
         ELSE PackArgs(Tail(args), slen, Append(acc, a))

\* the range struct accepts for an integer format; the integers of the model
\* stay below 2^31, so the 4- and 8-byte formats only bound them from below
InRange(code, v) ==
    CASE code = "B" -> v >= 0 /\ v <= 255
      [] code = "b" -> v >= -128 /\ v <= 127
      [] code = "H" -> v >= 0 /\ v <= 65535
      [] code = "h" -> v >= -32768 /\ v <= 32767
      [] code \in {"I", "L", "Q"} -> v >= 0
      [] OTHER -> TRUE

\* the size bytes of a non-negative integer, most significant first
RECURSIVE Digits(_, _)
Digits(v, size) ==
    IF size = 0 THEN <<>> ELSE Append(Digits(v \div 256, size - 1), v % 256)

\* the bytes struct emits for integer v: two's complement in the byte order
IntToBytes(order, size, v) ==
    LET be == IF v >= 0 THEN Digits(v, size)
              ELSE [j \in 1..size |-> 255 - Digits(-(v + 1), size)[j]]
    IN IF order = ">" THEN be ELSE Reverse(be)

\* the count bytes of an 's' field: the value cut or padded with zero bytes
PadTo(b, count) == [j \in 1..count |-> IF j <= Len(b) THEN b[j] ELSE 0]

\* the bytes of the further elements of a counted integer field
RECURSIVE PackRest(_, _, _)
PackRest(order, size, items) ==
    IF items = <<>> THEN <<>>
    ELSE IntToBytes(order, size, Head(items).v[1])
         \o PackRest(order, size, Tail(items))

\* struct.pack(descriptor, *items), field k; float formats are not modelled
RECURSIVE StructPack(_, _, _, _, _)
StructPack(order, fields, k, items, acc) ==
    IF k > Len(fields)
    THEN IF items = <<>> THEN PackOk(acc) ELSE PackFailure("struct.error")
    ELSE
      LET f == fields[k]
          count == IF f.len = NoLen THEN 1 ELSE f.len
          size == ElemSize(f.code)
      IN
      IF f.code = "x"
      THEN StructPack(order, fields, k + 1, items, acc \o [j \in 1..count |-> 0])
      ELSE IF f.code = "s"
      THEN IF items = <<>> \/ Head(items).t # "bytes" THEN PackFailure("struct.error")
           ELSE StructPack(order, fields, k + 1, Tail(items),
                           acc \o PadTo(Head(items).v, count))
      ELSE IF Len(items) < count THEN PackFailure("struct.error")
      ELSE IF f.code = "c"
      THEN IF \E j \in 1..count : items[j].t # "bytes" \/ Len(items[j].v) # 1
           THEN PackFailure("struct.error")
           ELSE StructPack(order, fields, k + 1, SubSeq(items, count + 1, Len(items)),
                           acc \o [j \in 1..count |-> items[j].v[1]])
      ELSE IF f.code = "?"
      THEN StructPack(order, fields, k + 1, SubSeq(items, count + 1, Len(items)),
               acc \o [j \in 1..count |->
                          IF items[j].v = <<>> \/ items[j] = IntVal(0) THEN 0 ELSE 1])
      ELSE IF \E j \in 1..count : items[j].t # "int" \/ ~InRange(f.code, items[j].v[1])
      THEN PackFailure("struct.error")
      ELSE StructPack(order, fields, k + 1, SubSeq(items, count + 1, Len(items)),
               acc \o PackRest(order, size, SubSeq(items, 1, count)))

\* TxData.pack(argument_list)
pack(tx, argument_list) ==
    LET a == PackArgs(argument_list, string_len(tx.fields), <<>>) IN
    IF ~a.ok THEN PackFailure(a.exc)
    ELSE StructPack(tx.order, tx.fields, 1, <<IntVal(tx.cmd_id)>> \o a.items, <<>>)

(* ----------------------------- I2cChannel -------------------------------- *)
\* TxRxRequest.post_processing_time
post_processing_time(post_processing_delay, response, read_delay) ==
    IF post_processing_delay # None THEN post_processing_delay
    ELSE IF response.isNone THEN read_delay
    ELSE 0

NoValue == [ok |-> TRUE, stage |-> "none", exc |-> "None", isNone |-> TRUE,
            vals |-> <<>>, events |-> <<>>, read_len |-> None]
ExecFailure(stage, exc, events, read_len) ==
    [ok |-> FALSE, stage |-> stage, exc |-> exc, isNone |-> TRUE, vals |-> <<>>,
     events |-> events, read_len |-> read_len]

\* TxRxRequest.interpret_response(data)
interpret_response(response, crc, data, events, read_len) ==
    LET raw == strip_protocol(data, crc) IN
    IF ~raw.ok
    THEN ExecFailure(IF raw.exc = "I2cChecksumError" THEN "checksum" ELSE "decode",
                     raw.exc, events, read_len)
    ELSE IF response.isNone
    THEN [NoValue EXCEPT !.events = events, !.read_len = read_len]
    ELSE LET u == unpack(response, raw.data) IN
         IF ~u.ok THEN ExecFailure("decode", u.exc, events, read_len)
         ELSE [ok |-> TRUE, stage |-> "none", exc |-> "None", isNone |-> FALSE,
               vals |-> u.vals, events |-> events, read_len |-> read_len]

\* I2cConnectionMock.execute(address, tx_rx): write, busy wait, read,
\* interpret, post-processing wait.  dev is what the attached device does.
execute_busy_after_read(address, tx_data, rx_len, response, crc, read_delay, post_delay, dev) ==
    LET evW == IF tx_data # PyNone THEN <<"write">> ELSE <<>>
        expected_length == IF rx_len # None THEN rx_len ELSE 0
        evR == Append(evW, "read") \o
               (IF tx_data # PyNone /\ read_delay > 0 THEN <<"busy_delay">> ELSE <<>>)
        post == post_processing_time(post_delay, response, read_delay)
    IN
    IF tx_data # PyNone /\ dev.write = "fail"
    THEN ExecFailure("exchange", "I2cTransceiveError", <<"write">>, None)
    ELSE IF dev.read = "fail"
    THEN ExecFailure("exchange", "I2cTransceiveError", evR, expected_length)
    ELSE LET r == IF rx_len # None /\ rx_len # 0
                  THEN interpret_response(response, crc, dev.data,
                                          Append(evR, "interpret"), expected_length)
                  ELSE [NoValue EXCEPT !.events = evR, !.read_len = expected_length]
         IN IF r.ok /\ post > 0
            THEN [r EXCEPT !.events = Append(@, "post_delay")]
            ELSE r
execute(address, tx_data, rx_len, response, crc, read_delay, post_delay, dev) ==
    LET evW == IF tx_data # PyNone
               THEN <<"write">> \o (IF read_delay > 0 THEN <<"busy_delay">> ELSE <<>>)
               ELSE <<>>
        expected_length == IF rx_len # None THEN rx_len ELSE 0
        evR == Append(evW, "read")
        post == post_processing_time(post_delay, response, read_delay)
    IN
    IF tx_data # PyNone /\ dev.write = "fail"
    THEN ExecFailure("exchange", "I2cTransceiveError", <<"write">>, None)
    ELSE IF dev.read = "fail"
    THEN ExecFailure("exchange", "I2cTransceiveError", evR, expected_length)
    ELSE LET r == IF rx_len # None /\ rx_len # 0
                  THEN interpret_response(response, crc, dev.data,
                                          Append(evR, "interpret"), expected_length)
                  ELSE [NoValue EXCEPT !.events = evR, !.read_len = expected_length]
         IN IF r.ok /\ post > 0
            THEN [r EXCEPT !.events = Append(@, "post_delay")]
            ELSE r

\* the handling of a failure of connection.execute in I2cChannel.write_read
OnExecuteErrorAlwaysRaise(ex, ignore_errors) ==
    [outcome |-> "raise", exc |-> ex.exc, isNone |-> TRUE, vals |-> <<>>]
OnExecuteError(ex, ignore_errors) ==
    IF ~ignore_errors
    THEN [outcome |-> "raise", exc |-> ex.exc, isNone |-> TRUE, vals |-> <<>>]
    ELSE [outcome |-> "return", exc |-> "None", isNone |-> TRUE, vals |-> <<>>]

\* the response length requested from the connection
RequestedLengthUnscaled(response, crc) ==
    IF response.isNone THEN None ELSE rx_length(response)
RequestedLength(response, crc) ==
    IF response.isNone THEN None
    ELSE IF crc # "None" THEN (3 * rx_length(response)) \div 2
    ELSE rx_length(response)

\* the address the connection is called with
TargetAddress(slave_address, own_address) ==
    IF slave_address = None THEN own_address ELSE slave_address

\* I2cChannel.write_read
I2c_write_read(crc, own_address, args, dev) ==
    LET tx == build_tx_data(args.tx_bytes, args.payload_offset, crc)
        rx_len == RequestedLength(args.response, crc)
        address == TargetAddress(args.slave_address, own_address)
        ex == execute(address, tx, rx_len, args.response, crc,
                      args.device_busy_delay, args.post_processing_delay, dev)
        res == IF ~ex.ok THEN OnExecuteError(ex, args.ignore_errors)
               ELSE [outcome |-> "return", exc |-> "None", isNone |-> ex.isNone,
                     vals |-> ex.vals]
    IN [op |-> "write_read", outcome |-> res.outcome, exc |-> res.exc,
        isNone |-> res.isNone, vals |-> res.vals,
        tx_sent |-> tx, rx_len |-> rx_len, address |-> address,
        ignore_errors |-> args.ignore_errors, exec |-> ex]

\* the call made by I2cChannel.i2c_general_call_reset
GeneralCallArgs ==
    [tx_bytes |-> <<6>>, payload_offset |-> 1, response |-> NoResponse,
     device_busy_delay |-> 0, post_processing_delay |-> 50,
     slave_address |-> 0, ignore_errors |-> TRUE]

\* --- inputs of the I2C exchanges ---
I2cRequests ==
    { [tx_bytes |-> <<>>, payload_offset |-> 0],
      [tx_bytes |-> <<6>>, payload_offset |-> 1],
      [tx_bytes |-> <<137, 3, 232>>, payload_offset |-> 1],
      [tx_bytes |-> <<36, 22>>, payload_offset |-> 2] }

ResponseSamples ==
    { NoResponse,
      RxData(">", <<Field(NoLen, "H")>>, FALSE),
      RxData(">", <<Field(NoLen, "H"), Field(NoLen, "H")>>, FALSE),
      RxData(">", <<Field(NoLen, "B"), Field(NoLen, "H")>>, FALSE),
      RxData(">", <<Field(4, "s")>>, FALSE) }

DelaySamples ==
    { [busy |-> 0, post |-> None], [busy |-> 2, post |-> None], [busy |-> 2, post |-> 5] }

AddressSamples == {None, 0, 69}

DevicePayloads ==
    { <<>>, <<190>>, <<190, 239>>, <<190, 239, 7>>, <<97, 98, 0, 0>>,
      <<0, 7, 1, 2>>, <<255, 254, 1, 1>> }

\* one byte of the received buffer altered on the wire (c = 0: none)
Corrupt(d, c) ==
    IF c = 0 \/ d = PyNone THEN d ELSE [d EXCEPT ![c] = (@ + 1) % 256]

\* the bytes a device puts on the wire for a payload when n bytes are read:
\* a read of no bytes hands the payload over as it is
OnWire(p, crc, n) ==
    IF n <= 0 \/ crc = "None" THEN p ELSE build_tx_data(p, 0, crc)

WireLen(d) == IF d = PyNone THEN 0 ELSE Len(d)

\* what the device may do when at most n bytes are read from it
I2cDeviceOutcomes(crc, n) ==
    { [write |-> "fail", read |-> "ok", data |-> <<>>],
      [write |-> "ok", read |-> "fail", data |-> <<>>] }
    \cup
    { [write |-> "ok", read |-> "ok", data |-> Corrupt(OnWire(p, crc, n), c)] :
        <<p, c>> \in { pc \in DevicePayloads \X (0..6) :
                         /\ WireLen(OnWire(pc[1], crc, n)) <= n
                         /\ pc[2] <= WireLen(OnWire(pc[1], crc, n))
                         /\ (OnWire(pc[1], crc, n) = PyNone => n > 0) } }

\* the position of event e in the sequence ev, 0 when it is absent
EventAt(ev, e) ==
    IF \E j \in 1..Len(ev) : ev[j] = e
    THEN CHOOSE j \in 1..Len(ev) : ev[j] = e
    ELSE 0

I2cPending == [op |-> "pending"]

\* the call res is the outcome of, while it is at pc: in the time.sleep of
\* execute named pc, or returned to its caller ("done").  In the wait after
\* the write the device was not read; in the wait before the return the
\* response is held by execute and the caller has nothing yet.  ahead is
\* what the rest of the call will do with the device i2c_dev stands for.
I2cAt(res, pc) ==
    LET j == EventAt(res.exec.events, pc)
        held == IF pc = "busy_delay"
                THEN [NoValue EXCEPT !.events = SubSeq(res.exec.events, 1, j)]
                ELSE [res.exec EXCEPT !.events = SubSeq(res.exec.events, 1, j)]
    IN IF pc = "done"
       THEN [op |-> res.op, pc |-> pc, outcome |-> res.outcome, exc |-> res.exc,
             isNone |-> res.isNone, vals |-> res.vals, tx_sent |-> res.tx_sent,
             rx_len |-> res.rx_len, address |-> res.address,
             ignore_errors |-> res.ignore_errors, exec |-> res.exec]
       ELSE [op |-> res.op, pc |-> pc, outcome |-> "running", exc |-> "None",
             isNone |-> TRUE, vals |-> <<>>, tx_sent |-> res.tx_sent,
             rx_len |-> res.rx_len, address |-> res.address,
             ignore_errors |-> res.ignore_errors, exec |-> held, ahead |-> res]

\* the call runs on from pc ("start": from its first statement) to the next
\* time.sleep of execute, or to its end
I2cRunFrom(res, pc) ==
    IF pc = "start" /\ EventAt(res.exec.events, "busy_delay") > 0
    THEN I2cAt(res, "busy_delay")
    ELSE IF pc # "post_delay" /\ EventAt(res.exec.events, "post_delay") > 0
    THEN I2cAt(res, "post_delay")
    ELSE I2cAt(res, "done")

\* a channel that is not exchanging anything
I2cIdle ==
    /\ i2c_crc = "None"
    /\ i2c_slave_address = 68
    /\ i2c_args = GeneralCallArgs
    /\ i2c_dev = [write |-> "ok", read |-> "ok", data |-> <<>>]
    /\ i2c_result = I2cPending

\* I2cChannel(connection, slave_address, crc) and one call about to be made
I2cInit ==
    /\ i2c_crc \in {"None"} \cup CrcFunctions
    /\ i2c_slave_address = 68
    /\ \E rq \in I2cRequests, rs \in ResponseSamples, dl \in DelaySamples,
          ad \in AddressSamples, ig \in BOOLEAN :
         i2c_args = [tx_bytes |-> rq.tx_bytes, payload_offset |-> rq.payload_offset,
                     response |-> rs, device_busy_delay |-> dl.busy,
                     post_processing_delay |-> dl.post, slave_address |-> ad,
                     ignore_errors |-> ig]
    /\ i2c_dev \in I2cDeviceOutcomes(i2c_crc,
                      Max(0, RequestedLength(i2c_args.response, i2c_crc)))
    /\ i2c_result = I2cPending

\* channel.write_read(...), as far as its first wait or its end
I2cWriteRead ==
    /\ i2c_result = I2cPending
    /\ \E res \in {I2c_write_read(i2c_crc, i2c_slave_address, i2c_args, i2c_dev)} :
         i2c_result' = I2cRunFrom(res, "start")
    /\ UNCHANGED <<i2c_crc, i2c_slave_address, i2c_args, i2c_dev, mcvars, mdvars, shvars, frvars, cdvars,
                   smvars, imvars, brvars, xfvars, mtvars, bfvars>>

\* channel.i2c_general_call_reset(), as far as its wait or its end
I2cGeneralCallReset ==
    /\ i2c_result = I2cPending
    /\ i2c_dev.data = <<>>
    /\ \E res \in {[I2c_write_read(i2c_crc, i2c_slave_address, GeneralCallArgs, i2c_dev)
                       EXCEPT !.op = "general_call_reset"]} :
         i2c_result' = I2cRunFrom(res, "start")
    /\ UNCHANGED <<i2c_crc, i2c_slave_address, i2c_args, i2c_dev, mcvars, mdvars, shvars, frvars, cdvars,
                   smvars, imvars, brvars, xfvars, mtvars, bfvars>>

\* the call waits in a time.sleep of execute
I2cWaiting(pc) == i2c_result # I2cPending /\ i2c_result.pc = pc

\* time.sleep(tx_rx.read_delay) is over: the device is read and the response
\* interpreted, as far as the wait before the return or the end of the call
I2cBusyOver ==
    /\ I2cWaiting("busy_delay")
    /\ i2c_result' = I2cRunFrom(i2c_result.ahead, "busy_delay")
    /\ UNCHANGED <<i2c_crc, i2c_slave_address, i2c_args, i2c_dev, mcvars, mdvars, shvars, frvars, cdvars,
                   smvars, imvars, brvars, xfvars, mtvars, bfvars>>

\* time.sleep(tx_rx.post_processing_time) is over: execute returns the
\* response and write_read returns it
I2cReturn ==
    /\ I2cWaiting("post_delay")
    /\ i2c_result' = I2cRunFrom(i2c_result.ahead, "post_delay")
    /\ UNCHANGED <<i2c_crc, i2c_slave_address, i2c_args, i2c_dev, mcvars, mdvars, shvars, frvars, cdvars,
                   smvars, imvars, brvars, xfvars, mtvars, bfvars>>

(* ---------------------------- ShdlcChannel ------------------------------- *)
ShdlcFailure(stage, exc, code, events) ==
    [outcome |-> "raise", stage |-> stage, exc |-> exc, error_code |-> code,
     isNone |-> TRUE, decoded |-> FALSE, vals |-> <<>>, raw |-> <<>>,
     events |-> events]

\* shdlc_address = slave_address or self._address
ShdlcTargetAddress(slave_address, own_address) ==
    IF slave_address = None \/ slave_address = 0 THEN own_address ELSE slave_address

\* the two echo checks of write_read, in the order the code makes them
EchoCheckCommandFirst(rx_addr, shdlc_address, rx_cmd, cmd_id) ==
    IF rx_cmd # cmd_id THEN "command"
    ELSE IF rx_addr # shdlc_address THEN "address"
    ELSE "ok"
EchoCheck(rx_addr, shdlc_address, rx_cmd, cmd_id) ==
    IF rx_addr # shdlc_address THEN "address"
    ELSE IF rx_cmd # cmd_id THEN "command"
    ELSE "ok"

\* the decoder write_read applies to a validated response
ShdlcDecodeStatic(response, data) == unpack(response, data)
ShdlcDecode(response, data) == unpack_dynamic_sized(response, data)

\* rx_state & 0x7F and rx_state & 0x80
ErrorCodeUnmasked(rx_state) == rx_state
ErrorCode(rx_state) == rx_state % 128
ErrorState(rx_state) == (rx_state \div 128) % 2 = 1

\* ShdlcChannel.write_read; dev is what the transceiver answers
Shdlc_write_read(own_address, channel_delay, args, dev) ==
    LET shdlc_address == ShdlcTargetAddress(args.slave_address, own_address)
        header == SubSeq(args.tx_bytes, 1, Min(args.payload_offset, Len(args.tx_bytes)))
        cmd_id == header[1]
        data == SubSeq(args.tx_bytes, Len(header) + 1, Len(args.tx_bytes))
        timeout == Max(channel_delay, args.device_busy_delay)
        rx_addr == (shdlc_address + dev.addr_delta) % 256
        rx_cmd == (cmd_id + dev.cmd_delta) % 256
        evT == <<"transceive">>
        evS == IF ErrorState(dev.state) THEN Append(evT, "warn_error_state") ELSE evT
        evPost == IF args.post_processing_delay # None THEN <<"post_delay">> ELSE <<>>
        core ==
            IF Len(header) # 1
            THEN ShdlcFailure("request", "struct.error", 0, <<>>)
            ELSE IF dev.kind = "fail"
            THEN ShdlcFailure("exchange", "ShdlcTimeoutError", 0, evT)
            ELSE IF EchoCheck(rx_addr, shdlc_address, rx_cmd, cmd_id) # "ok"
            THEN ShdlcFailure(EchoCheck(rx_addr, shdlc_address, rx_cmd, cmd_id),
                              "ShdlcResponseError", 0, evT)
            ELSE IF ErrorCode(dev.state) # 0
            THEN ShdlcFailure("device", "ShdlcDeviceError", ErrorCode(dev.state), evS)
            ELSE IF ~args.response.isNone
            THEN LET u == ShdlcDecode(args.response, dev.data) IN
                 IF ~u.ok THEN ShdlcFailure("decode", u.exc, 0, Append(evS, "decode"))
                 ELSE [outcome |-> "return", stage |-> "none", exc |-> "None",
                       error_code |-> 0, isNone |-> FALSE, decoded |-> TRUE,
                       vals |-> u.vals, raw |-> <<>>,
                       events |-> Append(evS, "decode") \o evPost]
            ELSE [outcome |-> "return", stage |-> "none", exc |-> "None",
                  error_code |-> 0, isNone |-> FALSE, decoded |-> FALSE,
                  vals |-> <<>>, raw |-> dev.data, events |-> evS \o evPost]
    IN [op |-> "write_read", outcome |-> core.outcome, stage |-> core.stage,
        exc |-> core.exc, error_code |-> core.error_code, isNone |-> core.isNone,
        decoded |-> core.decoded, vals |-> core.vals, raw |-> core.raw,
        events |-> core.events, address |-> shdlc_address, timeout |-> timeout,
        ignore_errors |-> args.ignore_errors]

\* --- inputs of the SHDLC exchanges ---
ShdlcRequests ==
    { [tx_bytes |-> <<6>>, payload_offset |-> 1],
      [tx_bytes |-> <<137, 3, 232>>, payload_offset |-> 1],
      [tx_bytes |-> <<36, 22>>, payload_offset |-> 2] }

ShdlcPayloads == { <<>>, <<190, 239>>, <<97, 98, 0, 0>>, <<0, 7, 1, 2>> }

StatusSamples == {0, 1, 128, 131}

\* response descriptors of the SHDLC exchanges: the common samples and the
\* descriptor without any field
ShdlcResponseSamples == ResponseSamples \cup { RxData(">", <<>>, FALSE) }

\* the transceiver is the repository's ShdlcTransceiverMock over its
\* ShdlcSensorMock: what it answers is drawn when it is asked
ShdlcMockDevice ==
    [kind |-> "mock", addr_delta |-> 0, cmd_delta |-> 0, state |-> 0, data |-> <<>>]

ShdlcDeviceOutcomes ==
    { [kind |-> "fail", addr_delta |-> 0, cmd_delta |-> 0, state |-> 0, data |-> <<>>],
      ShdlcMockDevice }
    \cup
    { [kind |-> "ok", addr_delta |-> a, cmd_delta |-> c, state |-> st, data |-> d] :
        a \in {0, 1}, c \in {0, 1}, st \in StatusSamples, d \in ShdlcPayloads }

ShdlcPending == [op |-> "pending"]

ShdlcIdle ==
    /\ sh_address = 0
    /\ sh_channel_delay = 50
    /\ sh_args = [tx_bytes |-> <<6>>, payload_offset |-> 1, response |-> NoResponse,
                  device_busy_delay |-> 0, post_processing_delay |-> None,
                  slave_address |-> None, ignore_errors |-> FALSE]
    /\ sh_dev = [kind |-> "fail", addr_delta |-> 0, cmd_delta |-> 0, state |-> 0,
                 data |-> <<>>]
    /\ sh_result = ShdlcPending

\* ShdlcChannel(transceiver, channel_delay, shdlc_address) and one call about
\* to be made
ShdlcInit ==
    /\ sh_address \in {0, 5}
    /\ sh_channel_delay \in {1, 50}
    /\ \E rq \in ShdlcRequests, rs \in ShdlcResponseSamples, dl \in DelaySamples,
          ad \in AddressSamples, ig \in BOOLEAN :
         sh_args = [tx_bytes |-> rq.tx_bytes, payload_offset |-> rq.payload_offset,
                    response |-> rs, device_busy_delay |-> dl.busy,
                    post_processing_delay |-> dl.post, slave_address |-> ad,
                    ignore_errors |-> ig]
    /\ sh_dev \in ShdlcDeviceOutcomes
    /\ sh_result = ShdlcPending

\* the caller has the outcome; the channel is ready for the next call
ShdlcNextCall ==
    /\ sh_result.op = "write_read"
    /\ sh_result' = ShdlcPending
    /\ UNCHANGED <<sh_address, sh_channel_delay, sh_args, sh_dev, mcvars, mdvars, i2cvars, frvars, cdvars,
                   smvars, imvars, brvars, xfvars, mtvars, bfvars>>

(* ------------------ framing helpers on drawn inputs ---------------------- *)
\* every byte sequence over the alphabet up to the given length
ByteSeqs(alphabet, maxlen) == UNION { [1..n -> alphabet] : n \in 0..maxlen }

FrameBytes == {3, 137, 232}
CmdWidths == {0, 1, 2}

\* one byte of a framed buffer replaced by a different value in transit
NoTamper == [at |-> 0, delta |-> 0]
TamperSamples ==
    {NoTamper} \cup
    [at : 1..(MaxPayloadLen + MaxPayloadLen \div 2), delta : {1, 128, 255}]
Tamper(d, t) ==
    IF d = PyNone \/ t.at = 0 \/ t.at > Len(d) THEN d
    ELSE [d EXCEPT ![t.at] = (@ + t.delta) % 256]

FrPending == [op |-> "pending"]

FrIdle ==
    /\ fr_tx = <<>> /\ fr_cmd_width = 0 /\ fr_crc = "None"
    /\ fr_tamper = NoTamper /\ fr_pc = "idle"
    /\ fr_framed = FrPending /\ fr_wire = FrPending
    /\ fr_stripped = FrPending /\ fr_passed = FrPending

FrInit ==
    /\ fr_tx \in ByteSeqs(FrameBytes, MaxPayloadLen)
    /\ fr_cmd_width \in CmdWidths
    /\ fr_crc \in {"None"} \cup CrcFunctions
    /\ fr_tamper \in TamperSamples
    /\ (fr_crc = "None") => (fr_tamper = NoTamper)
    /\ fr_pc = "build"
    /\ fr_framed = FrPending /\ fr_wire = FrPending
    /\ fr_stripped = FrPending /\ fr_passed = FrPending

\* build_tx_data(fr_tx, fr_cmd_width, fr_crc)
FrBuild ==
    /\ fr_pc = "build"
    /\ fr_framed' = [op |-> "build_tx_data",
                     ret |-> build_tx_data(fr_tx, fr_cmd_width, fr_crc)]
    /\ fr_pc' = IF fr_crc = "None" THEN "pass" ELSE "strip"
    /\ UNCHANGED <<fr_tx, fr_cmd_width, fr_crc, fr_tamper, fr_wire, fr_stripped,
                   fr_passed, mcvars, mdvars, i2cvars, shvars, cdvars,
                   smvars, imvars, brvars, xfvars, mtvars, bfvars>>

\* strip_and_check_crc on the framed buffer as it arrives
FrStrip ==
    /\ fr_pc = "strip"
    /\ LET wire == Tamper(fr_framed.ret, fr_tamper) IN
       /\ fr_wire' = [op |-> "received", buf |-> wire]
       /\ fr_stripped' = strip_and_check_crc(wire, fr_crc)
    /\ fr_pc' = "pass"
    /\ UNCHANGED <<fr_tx, fr_cmd_width, fr_crc, fr_tamper, fr_framed, fr_passed,
                   mcvars, mdvars, i2cvars, shvars, cdvars,
                   smvars, imvars, brvars, xfvars, mtvars, bfvars>>

\* strip_protocol on fr_tx taken as received bytes
FrPass ==
    /\ fr_pc = "pass"
    /\ fr_passed' = strip_protocol(fr_tx, fr_crc)
    /\ fr_pc' = "done"
    /\ UNCHANGED <<fr_tx, fr_cmd_width, fr_crc, fr_tamper, fr_framed, fr_wire,
                   fr_stripped, mcvars, mdvars, i2cvars, shvars, cdvars,
                   smvars, imvars, brvars, xfvars, mtvars, bfvars>>

(* ---------------- TxData / RxData on drawn inputs ------------------------ *)
Desc(order, fields) == [order |-> order, fields |-> fields]

\* descriptors: '>H8s' '>H8B' '>3BH' '>3sH' '>8s' '>2HB' '>BH' '>H' '>HL' '>L'
\* '>hb' '<HI' '>B?' '>Bq' '>HH' '>H2s' '>H2s2s' '>Hs' '>2b'
DescriptorSamples ==
    { Desc(">", <<Field(NoLen, "H"), Field(8, "s")>>),
      Desc(">", <<Field(NoLen, "H"), Field(8, "B")>>),
      Desc(">", <<Field(3, "B"), Field(NoLen, "H")>>),
      Desc(">", <<Field(3, "s"), Field(NoLen, "H")>>),
      Desc(">", <<Field(8, "s")>>),
      Desc(">", <<Field(2, "H"), Field(NoLen, "B")>>),
      Desc(">", <<Field(NoLen, "B"), Field(NoLen, "H")>>),
      Desc(">", <<Field(NoLen, "H")>>),
      Desc(">", <<Field(NoLen, "H"), Field(NoLen, "L")>>),
      Desc(">", <<Field(NoLen, "L")>>),
      Desc(">", <<Field(NoLen, "h"), Field(NoLen, "b")>>),
      Desc("<", <<Field(NoLen, "H"), Field(NoLen, "I")>>),
      Desc(">", <<Field(NoLen, "B"), Field(NoLen, "?")>>),
      Desc(">", <<Field(NoLen, "B"), Field(NoLen, "q")>>),
      Desc(">", <<Field(NoLen, "H"), Field(NoLen, "H")>>),
      Desc(">", <<Field(NoLen, "H"), Field(2, "s")>>),
      Desc(">", <<Field(NoLen, "H"), Field(2, "s"), Field(2, "s")>>),
      Desc(">", <<Field(NoLen, "H"), Field(NoLen, "s")>>),
      Desc(">", <<Field(2, "b")>>) }

\* formats whose unsigned values exceed the integers of the model; they are
\* decoded from packed values only
WideCodes == {"I", "i", "q", "Q"}

\* received bytes: every sequence over three byte values up to MaxDataLen and
\* longer buffers holding 'abc' in an 8-byte field
DecodeBytes == {0, 97, 200}
DataSamples ==
    ByteSeqs(DecodeBytes, MaxDataLen) \cup
    { <<97, 98, 99, 0, 0, 0, 0, 0>>,
      <<0, 7, 97, 98, 99, 0, 0, 0, 0, 0>>,
      <<0, 7, 97, 0, 99, 0, 100, 0, 0, 1>>,
      <<1, 2, 3, 4, 5>>,
      <<195, 169, 0, 4, 5>> }

\* the values handed to pack: the command id and up to two arguments
CmdIdSamples == {1, 137, 1000, -2}
PackArgValues ==
    { IntVal(n) : n \in {0, 1, 7, 200, 1000, 70000, -2} } \cup
    { StrVal(<<97, 98, 99>>), StrVal(<<104, 233, 108>>), ArrVal(<<1, 2, 3>>) }
PackArgSamples == UNION { [1..n -> PackArgValues] : n \in 0..2 }

NoData == [given |-> FALSE, bytes |-> <<>>]
NoValues == [given |-> FALSE, cmd_id |-> 0, args |-> <<>>]
CdPending == [op |-> "pending"]

CdIdle ==
    /\ cd_descriptor = Desc(">", <<>>) /\ cd_convert = FALSE
    /\ cd_data = NoData /\ cd_values = NoValues /\ cd_pc = "idle"
    /\ cd_init = CdPending
    /\ cd_unpacked = CdPending /\ cd_packed = CdPending /\ cd_round = CdPending

\* either received bytes to decode or values to pack and decode again
CdInit ==
    /\ cd_descriptor \in DescriptorSamples
    /\ \/ /\ cd_convert \in BOOLEAN
          /\ \A k \in 1..Len(cd_descriptor.fields) :
                 cd_descriptor.fields[k].code \notin WideCodes
          /\ \E d \in DataSamples :
                 \* folding is drawn where the folded integer has under 32 bits
                 /\ cd_convert => 8 * Len(d) < 32
                 /\ cd_data = [given |-> TRUE, bytes |-> d]
          /\ cd_values = NoValues
       \/ /\ cd_convert = FALSE
          /\ cd_data = NoData
          /\ \E c \in CmdIdSamples, a \in PackArgSamples :
                 cd_values = [given |-> TRUE, cmd_id |-> c, args |-> a]
    /\ cd_pc = "start"
    /\ cd_init = CdPending
    /\ cd_unpacked = CdPending /\ cd_packed = CdPending /\ cd_round = CdPending

CdRxData == RxData(cd_descriptor.order, cd_descriptor.fields, cd_convert)

\* RxData(descriptor, convert_to_int).unpack_dynamic_sized(data)
CdUnpackDynamic ==
    /\ cd_pc = "start" /\ cd_data.given
    /\ cd_unpacked' = unpack_dynamic_sized(CdRxData, cd_data.bytes)
    /\ cd_pc' = "done"
    /\ UNCHANGED <<cd_descriptor, cd_convert, cd_data, cd_values, cd_init, cd_packed,
                   cd_round, mcvars, mdvars, i2cvars, shvars, frvars,
                   smvars, imvars, brvars, xfvars, mtvars, bfvars>>

\* RxData(descriptor, convert_to_int).unpack(data); a direct decode is drawn
\* where its integers have under 32 bits
CdUnpack ==
    /\ cd_pc = "start" /\ cd_data.given
    /\ \/ contains_array(CdRxData)
       \/ Len(cd_data.bytes) # rx_length(CdRxData)
       \/ \A j \in 1..Len(cd_data.bytes) : cd_data.bytes[j] < 128
    /\ cd_round' = unpack(CdRxData, cd_data.bytes)
    /\ cd_pc' = "unpacked"
    /\ UNCHANGED <<cd_descriptor, cd_convert, cd_data, cd_values, cd_init, cd_unpacked,
                   cd_packed, mcvars, mdvars, i2cvars, shvars, frvars,
                   smvars, imvars, brvars, xfvars, mtvars, bfvars>>

\* TxData(cmd_id, descriptor)
CdConstruct ==
    /\ cd_pc = "start" /\ cd_values.given
    /\ cd_init' = TxDataInit(cd_values.cmd_id, cd_descriptor.order, cd_descriptor.fields)
    /\ cd_pc' = "constructed"
    /\ UNCHANGED <<cd_descriptor, cd_convert, cd_data, cd_values, cd_unpacked, cd_packed,
                   cd_round, mcvars, mdvars, i2cvars, shvars, frvars,
                   smvars, imvars, brvars, xfvars, mtvars, bfvars>>

\* tx.pack(argument_list) on the constructed object
CdPack ==
    /\ cd_pc = "constructed" /\ cd_init.ok
    /\ cd_packed' = pack(cd_init.tx, cd_values.args)
    /\ cd_pc' = "packed"
    /\ UNCHANGED <<cd_descriptor, cd_convert, cd_data, cd_values, cd_init, cd_unpacked, cd_round,
                   mcvars, mdvars, i2cvars, shvars, frvars,
                   smvars, imvars, brvars, xfvars, mtvars, bfvars>>

\* RxData(descriptor).unpack(packed bytes)
CdUnpackPacked ==
    /\ cd_pc = "packed" /\ cd_packed.ok
    /\ cd_round' = unpack(CdRxData, cd_packed.data)
    /\ cd_pc' = "done"
    /\ UNCHANGED <<cd_descriptor, cd_convert, cd_data, cd_values, cd_init, cd_unpacked,
                   cd_packed, mcvars, mdvars, i2cvars, shvars, frvars,
                   smvars, imvars, brvars, xfvars, mtvars, bfvars>>

(* ---------------- ShdlcSensorMock / ShdlcTransceiverMock ------------------ *)
\* the byte values a RandomResponse may produce, cut down to two
RandomBytes == {7, 200}

\* RandomResponse.handle_command(cmd_id, data, response_length): the answers
\* it may give
handle_command(cmd_id, data, response_length) ==
    IF response_length <= 0 THEN {<<>>} ELSE [1..response_length -> RandomBytes]

SmPair(cmd, data) == [cmd |-> cmd, data |-> data]
NoPair == SmPair(None, <<>>)

\* ShdlcSensorMock.write(cmd_id, data)
ShdlcMock_write(queue, cmd_id, data) == Append(queue, SmPair(cmd_id, data))

\* ShdlcSensorMock.read(cmd_id, nr_of_bytes): pop(0), the assert on the
\* command id, then the request for the response provider
ShdlcMock_read_newest(queue, cmd_id, nr_of_bytes) ==
    IF queue = <<>>
    THEN [exc |-> "IndexError", queue |-> queue, popped |-> FALSE, served |-> NoPair]
    ELSE LET p == queue[Len(queue)] IN
         [exc |-> IF p.cmd # cmd_id THEN "AssertionError" ELSE "None",
          queue |-> SubSeq(queue, 1, Len(queue) - 1), popped |-> TRUE, served |-> p]
ShdlcMock_read(queue, cmd_id, nr_of_bytes) ==
    IF queue = <<>>
    THEN [exc |-> "IndexError", queue |-> queue, popped |-> FALSE, served |-> NoPair]
    ELSE LET p == Head(queue) IN
         [exc |-> IF p.cmd # cmd_id THEN "AssertionError" ELSE "None",
          queue |-> Tail(queue), popped |-> TRUE, served |-> p]

\* ShdlcTransceiverMock.set_expected_length(response)
set_expected_length(response) ==
    IF response.isNone THEN 0 ELSE rx_length(response)

SmCommands == {1, 2}
SmAddresses == {0, 5}
SmPayloads == {<<>>, <<7>>}
SmReadLengths == {0, 2}
SmResponses == {NoResponse, RxData(">", <<Field(NoLen, "H")>>, FALSE)}

SmNoCall == [op |-> "none", cmd_id |-> None, n |-> 0, exc |-> "None", popped |-> FALSE,
             served |-> NoPair, answer |-> <<>>, ret |-> <<>>]

\* a mock nothing was written to
SmIdle ==
    /\ sm_queue = <<>> /\ sm_expected_length = 0
    /\ sm_written = <<>> /\ sm_popped = 0
    /\ sm_last = SmNoCall /\ sm_ops = 0

\* sensor_mock.write(cmd_id, data)
SmWrite ==
    /\ sm_ops < MaxMockOps
    /\ \E cmd \in SmCommands, data \in SmPayloads :
         /\ sm_queue' = ShdlcMock_write(sm_queue, cmd, data)
         /\ sm_written' = Append(sm_written, SmPair(cmd, data))
         /\ sm_last' = [SmNoCall EXCEPT !.op = "write", !.cmd_id = cmd]
    /\ sm_ops' = sm_ops + 1
    /\ UNCHANGED <<sm_expected_length, sm_popped, mcvars, mdvars, i2cvars, shvars, frvars,
                   cdvars, imvars, brvars, xfvars, mtvars, bfvars>>

\* sensor_mock.read(cmd_id, nr_of_bytes)
SmRead ==
    /\ sm_ops < MaxMockOps
    /\ \E cmd \in SmCommands, n \in SmReadLengths :
         LET r == ShdlcMock_read(sm_queue, cmd, n) IN
         /\ sm_queue' = r.queue
         /\ sm_popped' = IF r.popped THEN sm_popped + 1 ELSE sm_popped
         /\ \E answer \in (IF r.exc = "None"
                           THEN handle_command(r.served.cmd, r.served.data, n)
                           ELSE {<<>>}) :
              sm_last' = [op |-> "read", cmd_id |-> cmd, n |-> n, exc |-> r.exc,
                          popped |-> r.popped, served |-> r.served, answer |-> answer,
                          ret |-> answer]
    /\ sm_ops' = sm_ops + 1
    /\ UNCHANGED <<sm_expected_length, sm_written, mcvars, mdvars, i2cvars, shvars, frvars,
                   cdvars, imvars, brvars, xfvars, mtvars, bfvars>>

\* transceiver.set_expected_length(response)
SmSetExpectedLength ==
    /\ sm_ops < MaxMockOps
    /\ \E response \in SmResponses :
         sm_expected_length' = set_expected_length(response)
    /\ sm_last' = [SmNoCall EXCEPT !.op = "set_expected_length"]
    /\ sm_ops' = sm_ops + 1
    /\ UNCHANGED <<sm_queue, sm_written, sm_popped, mcvars, mdvars, i2cvars, shvars, frvars,
                   cdvars, imvars, brvars, xfvars, mtvars, bfvars>>

\* transceiver.transceive(slave_address, command_id, data, response_timeout):
\* the write, then the read of the expected length
SmTransceive ==
    /\ sm_ops < MaxMockOps
    /\ \E slave_address \in SmAddresses, cmd \in SmCommands, data \in SmPayloads :
         LET written == ShdlcMock_write(sm_queue, cmd, data)
             r == ShdlcMock_read(written, cmd, sm_expected_length)
         IN
         /\ sm_queue' = r.queue
         /\ sm_written' = Append(sm_written, SmPair(cmd, data))
         /\ sm_popped' = IF r.popped THEN sm_popped + 1 ELSE sm_popped
         /\ \E answer \in (IF r.exc = "None"
                           THEN handle_command(r.served.cmd, r.served.data,
                                               sm_expected_length)
                           ELSE {<<>>}) :
              sm_last' = [op |-> "transceive", cmd_id |-> cmd, n |-> sm_expected_length,
                          exc |-> r.exc, popped |-> r.popped, served |-> r.served,
                          answer |-> answer,
                          ret |-> IF r.exc = "None"
                                  THEN <<slave_address, cmd, 0>> \o answer
                                  ELSE <<>>]
    /\ sm_ops' = sm_ops + 1
    /\ UNCHANGED <<sm_expected_length, mcvars, mdvars, i2cvars, shvars, frvars,
                   cdvars, imvars, brvars, xfvars, mtvars, bfvars>>

\* what ShdlcTransceiverMock.transceive hands back to ShdlcChannel.write_read:
\* (slave_address, command_id, 0, answer), or the failure of the sensor mock
ShdlcMockAnswer(r, answer) ==
    IF r.exc = "None"
    THEN [kind |-> "ok", addr_delta |-> 0, cmd_delta |-> 0, state |-> 0, data |-> answer,
          exc |-> "None"]
    ELSE [kind |-> "fail", addr_delta |-> 0, cmd_delta |-> 0, state |-> 0, data |-> <<>>,
          exc |-> r.exc]

\* write_read up to its last statements: a call that is about to return and
\* was given a post_processing_delay is in time.sleep before it returns
ShdlcUntilWait(res, post_processing_delay) ==
    IF res.outcome = "return" /\ post_processing_delay # None
    THEN [res EXCEPT !.op = "post_delay"]
    ELSE res

\* channel.write_read(...) on the ShdlcChannel of a ShdlcTransceiverMock: once
\* the command byte is unpacked, set_expected_length(response) and transceive
\* act on the mock
ShdlcWriteReadMock ==
    LET shdlc_address == ShdlcTargetAddress(sh_args.slave_address, sh_address)
        cmd_id == sh_args.tx_bytes[1]
        data == SubSeq(sh_args.tx_bytes, 2, Len(sh_args.tx_bytes))
    IN
    /\ sm_ops < MaxMockOps
    /\ \E n \in {set_expected_length(sh_args.response)} :
       \E r \in {ShdlcMock_read(ShdlcMock_write(sm_queue, cmd_id, data), cmd_id, n)} :
       \E answer \in (IF r.exc = "None"
                      THEN handle_command(r.served.cmd, r.served.data, n)
                      ELSE {<<>>}) :
       \E dev \in {ShdlcMockAnswer(r, answer)} :
         /\ sm_expected_length' = n
         /\ sm_queue' = r.queue
         /\ sm_written' = Append(sm_written, SmPair(cmd_id, data))
         /\ sm_popped' = IF r.popped THEN sm_popped + 1 ELSE sm_popped
         /\ sm_last' = [op |-> "transceive", cmd_id |-> cmd_id, n |-> n,
                        exc |-> r.exc, popped |-> r.popped, served |-> r.served,
                        answer |-> answer,
                        ret |-> IF r.exc = "None"
                                THEN <<shdlc_address, cmd_id, 0>> \o answer
                                ELSE <<>>]
         /\ sh_result' = ShdlcUntilWait(
                [Shdlc_write_read(sh_address, sh_channel_delay, sh_args, dev)
                   EXCEPT !.exc = IF dev.kind = "fail" THEN dev.exc ELSE @],
                sh_args.post_processing_delay)
    /\ sm_ops' = sm_ops + 1

\* channel.write_read(...): through the mock transceiver, or through a
\* transceiver that answers sh_dev; the step ends where the call returns,
\* raises or starts the wait of post_processing_delay
ShdlcWriteRead ==
    /\ sh_result = ShdlcPending
    /\ IF sh_dev.kind = "mock" /\ Min(sh_args.payload_offset, Len(sh_args.tx_bytes)) = 1
       THEN ShdlcWriteReadMock
       ELSE /\ sh_result' = ShdlcUntilWait(
                              Shdlc_write_read(sh_address, sh_channel_delay, sh_args, sh_dev),
                              sh_args.post_processing_delay)
            /\ UNCHANGED smvars
    /\ UNCHANGED <<sh_address, sh_channel_delay, sh_args, sh_dev, mcvars, mdvars, i2cvars,
                   frvars, cdvars, imvars, brvars, xfvars, mtvars, bfvars>>

\* write_read is in time.sleep(post_processing_delay)
ShdlcWaiting == sh_result.op = "post_delay"

\* another thread calls sensor_mock.write(cmd_id, data) on the mock of the
\* channel while write_read waits
ShdlcMeanwhile == ShdlcWaiting /\ sh_dev.kind = "mock" /\ SmWrite

\* the wait is over: return rx_data
ShdlcReturn ==
    /\ ShdlcWaiting
    /\ sh_result' = [sh_result EXCEPT !.op = "write_read"]
    /\ UNCHANGED <<sh_address, sh_channel_delay, sh_args, sh_dev, smvars, mcvars, mdvars,
                   i2cvars, frvars, cdvars, imvars, brvars, xfvars, mtvars, bfvars>>

vars == <<mcvars, mdvars, i2cvars, shvars, frvars, cdvars, smvars, imvars, brvars, xfvars,
         mtvars, bfvars>>

(* ------- I2cSensorMock / I2cConnectionMock behind an I2cChannel ---------- *)
ImPair(cmd, data) == [cmd |-> cmd, data |-> data]

\* I2cSensorMock.command_template: the bytes struct.unpack takes for it
command_template(cmd_width) == IF cmd_width = 2 THEN 2 ELSE 1

\* I2cSensorMock.write(_, data): the command is read off the first bytes, the
\* rest is deframed when a crc is set, and the pair is queued; struct.unpack
\* raises when the command bytes do not fill the template
I2cMock_write(queue, last_seen, cmd_width, crc, data) ==
    LET cmd_len == Min(Len(data), cmd_width)
        last_command == BytesToInt(">", SubSeq(data, 1, cmd_len))
        stripped == IF crc # "None"
                    THEN strip_and_check_crc(SubSeq(data, cmd_len + 1, Len(data)), crc)
                    ELSE ChecksumOk(data)
    IN IF cmd_len # command_template(cmd_len)
       THEN [ok |-> FALSE, exc |-> "struct.error", queue |-> queue,
             last_command |-> last_seen]
       ELSE IF ~stripped.ok
       THEN [ok |-> FALSE, exc |-> stripped.exc, queue |-> queue,
             last_command |-> last_command]
       ELSE [ok |-> TRUE, exc |-> "None",
             queue |-> Append(queue, ImPair(last_command, stripped.data)),
             last_command |-> last_command]

\* the number of bytes I2cSensorMock.read asks the response provider for
AskedLength(nr_of_bytes_to_return, crc) ==
    IF nr_of_bytes_to_return <= 0 THEN 0
    ELSE (2 * nr_of_bytes_to_return) \div 3

\* I2cSensorMock.read(address, nr_of_bytes_to_return); rnd is what the random
\* response provider draws
I2cMock_read_peek(queue, last_command, crc, i2c_address, address, nr_of_bytes_to_return, rnd) ==
    LET has == queue # <<>>
        cmd == IF has THEN Head(queue).cmd ELSE last_command
        data == IF has THEN Head(queue).data ELSE <<>>
        rest == queue
        nr_of_bytes == AskedLength(nr_of_bytes_to_return, crc)
        rx_data == SubSeq(rnd, 1, nr_of_bytes)
    IN IF address # 0 /\ address # i2c_address
       THEN [ok |-> FALSE, exc |-> "AssertionError", queue |-> rest,
             cmd |-> cmd, data |-> data, asked |-> None, wire |-> <<>>]
       ELSE [ok |-> TRUE, exc |-> "None", queue |-> rest,
             cmd |-> cmd, data |-> data, asked |-> nr_of_bytes,
             wire |-> IF nr_of_bytes_to_return <= 0 \/ crc = "None" THEN rx_data
                      ELSE build_tx_data(rx_data, 0, crc)]
I2cMock_read(queue, last_command, crc, i2c_address, address, nr_of_bytes_to_return, rnd) ==
    LET has == queue # <<>>
        cmd == IF has THEN Head(queue).cmd ELSE last_command
        data == IF has THEN Head(queue).data ELSE <<>>
        rest == IF has THEN Tail(queue) ELSE queue
        nr_of_bytes == AskedLength(nr_of_bytes_to_return, crc)
        rx_data == SubSeq(rnd, 1, nr_of_bytes)
    IN IF address # 0 /\ address # i2c_address
       THEN [ok |-> FALSE, exc |-> "AssertionError", queue |-> rest,
             cmd |-> cmd, data |-> data, asked |-> None, wire |-> <<>>]
       ELSE [ok |-> TRUE, exc |-> "None", queue |-> rest,
             cmd |-> cmd, data |-> data, asked |-> nr_of_bytes,
             wire |-> IF nr_of_bytes_to_return <= 0 \/ crc = "None" THEN rx_data
                      ELSE build_tx_data(rx_data, 0, crc)]

\* two draws of the random response provider, as long as the longest answer
ImDraws == { <<7, 200, 7, 7>>, <<97, 98, 0, 0>> }

\* the calls made through the mock channel
ImRequests ==
    { [tx_bytes |-> <<>>, payload_offset |-> 0],
      [tx_bytes |-> <<137, 3, 232>>, payload_offset |-> 1],
      [tx_bytes |-> <<36, 22>>, payload_offset |-> 2] }
ImAddresses == {None, 69}
ImResponses ==
    { NoResponse,
      RxData(">", <<Field(NoLen, "H")>>, FALSE),
      RxData(">", <<Field(NoLen, "B"), Field(NoLen, "H")>>, FALSE) }

\* I2cConnectionMock.execute hands the framed request to I2cSensorMock.write;
\* without a request nothing is written
I2cMockWritten(queue, last_command, cmd_width, crc, tx) ==
    IF tx # PyNone THEN I2cMock_write(queue, last_command, cmd_width, crc, tx)
    ELSE [ok |-> TRUE, exc |-> "None", queue |-> queue,
          last_command |-> last_command]

\* the length I2cConnectionMock.execute reads from the mock
ExpectedLength(rx_len) == IF rx_len # None THEN rx_len ELSE 0

\* the mock as the device behind I2cConnectionMock.execute: w is what
\* I2cSensorMock.write did, r what I2cSensorMock.read did
I2cMockDevice(w, r) ==
    [write |-> IF w.ok THEN "ok" ELSE "fail",
     read |-> IF r.ok THEN "ok" ELSE "fail",
     data |-> r.wire]

\* channel.write_read(...) on the channel of MockI2cChannelProvider.get_channel:
\* I2cChannel.write_read (res) over I2cConnectionMock.execute with
\* I2cSensorMock.write (w) and I2cSensorMock.read (r) of the framed request tx
I2cMockExchange(crc, queue, args, tx, w, r, res) ==
    LET rx_len == RequestedLength(args.response, crc)
        mock_exc == IF ~w.ok THEN w.exc ELSE r.exc
        read_done == w.ok /\ r.ok
        stripped == strip_protocol(r.wire, crc)
        decoding == /\ read_done /\ rx_len # None /\ rx_len # 0
                    /\ ~args.response.isNone /\ stripped.ok
        raw == stripped.data
    IN [op |-> "exchange", args |-> args,
        outcome |-> res.outcome,
        exc |-> IF res.exec.stage = "exchange" /\ res.exc # "None" THEN mock_exc
                ELSE res.exc,
        isNone |-> res.isNone, vals |-> res.vals,
        rx_len |-> rx_len, events |-> res.exec.events,
        wrote |-> tx # PyNone /\ w.ok,
        read_done |-> read_done,
        asked |-> IF read_done THEN [cmd |-> r.cmd, data |-> r.data, len |-> r.asked]
                  ELSE [cmd |-> None, data |-> <<>>, len |-> None],
        decoding |-> decoding,
        decoder_len |-> IF ~decoding THEN None
                        ELSE IF raw = PyNone THEN 0 ELSE Len(raw),
        queue |-> IF w.ok THEN r.queue ELSE queue,
        last_command |-> w.last_command]

(* ------ I2cMultiSensorBridgeConnection / SensorBridgeI2cChannelProvider --- *)
\* the serial port opened for configuration cfg by the gen-th __enter__
Link(gen, cfg) == [gen |-> gen, cfg |-> cfg]

\* sensor_bridge_port_list of _create_proxies: the ports whose bit is set
PortList(selected_ports) ==
    (IF selected_ports % 2 = 1 THEN <<0>> ELSE <<>>) \o
    (IF (selected_ports \div 2) % 2 = 1 THEN <<1>> ELSE <<>>)

\* the call of the serial port or of the bridge device that fails, if any
NoFail == [cfg |-> 0, at |-> "none", port |-> 0]
EnterFailures(configs) ==
    {NoFail}
    \cup { [cfg |-> k, at |-> "open", port |-> 0] : k \in 1..Len(configs) }
    \cup { [cfg |-> k, at |-> "setup", port |-> j] :
             k \in 1..Len(configs), j \in 1..2 }

BrState(links, serial_ports, proxies, sensor_bridges, powered) ==
    [links |-> links, serial_ports |-> serial_ports, proxies |-> proxies,
     sensor_bridges |-> sensor_bridges, powered |-> powered, exc |-> "None"]

\* the loop of I2cMultiSensorBridgeConnection.__enter__ with _create_proxies,
\* from configuration k on
RECURSIVE EnterLoop(_, _, _, _, _)
EnterLoop(st, configs, k, gen, fail) ==
    IF k > Len(configs) THEN st
    ELSE IF fail.cfg = k /\ fail.at = "open"
    THEN [st EXCEPT !.exc = "open_failed"]
    ELSE
      LET link == Link(gen, k)
          ports == PortList(configs[k])
          failing == fail.cfg = k /\ fail.at = "setup" /\ fail.port <= Len(ports)
          n == IF failing THEN fail.port - 1 ELSE Len(ports)
          st1 == [st EXCEPT
                    !.links = @ \cup {link},
                    !.serial_ports = Append(@, link),
                    !.sensor_bridges = Append(@, [link |-> link, ports |-> ports]),
                    !.proxies = @ \o [j \in 1..n |-> [link |-> link, port |-> ports[j]]],
                    !.powered = @ \cup { [cfg |-> k, port |-> ports[j]] : j \in 1..n }]
      IN IF failing
         THEN [st1 EXCEPT !.exc = "setup_failed"]
         ELSE EnterLoop(st1, configs, k + 1, gen, fail)

\* the switch_supply_off calls of I2cMultiSensorBridgeConnection.switch_supply_off,
\* in order
RECURSIVE OffCalls(_)
OffCalls(sensor_bridges) ==
    IF sensor_bridges = <<>> THEN <<>>
    ELSE [j \in 1..Len(Head(sensor_bridges).ports) |->
              [cfg |-> Head(sensor_bridges).link.cfg, port |-> Head(sensor_bridges).ports[j]]]
         \o OffCalls(Tail(sensor_bridges))

SeqRange(q) == { q[j] : j \in 1..Len(q) }

\* I2cMultiSensorBridgeConnection.switch_supply_off: every port of every
\* bridge in turn; fail_off is the call on a bridge that fails, if any
switch_supply_off(st, fail_off) ==
    LET calls == OffCalls(st.sensor_bridges)
        done == IF fail_off = 0 THEN Len(calls) ELSE fail_off - 1
        off == [st EXCEPT !.powered = @ \ { calls[j] : j \in 1..done }]
    IN IF fail_off # 0 THEN [off EXCEPT !.exc = "supply_off_failed"] ELSE off

\* I2cMultiSensorBridgeConnection.switch_supply_on: the same ports in the same
\* order; fail_on is the call that fails, if any
switch_supply_on(st, fail_on) ==
    LET calls == OffCalls(st.sensor_bridges)
        done == IF fail_on = 0 THEN Len(calls) ELSE fail_on - 1
        on == [st EXCEPT !.powered = @ \cup { calls[j] : j \in 1..done }]
    IN IF fail_on # 0 THEN [on EXCEPT !.exc = "supply_on_failed"] ELSE on

\* I2cMultiSensorBridgeConnection.__exit__: switch_supply_off, close every
\* port, clear the list; fail_off is the switch_supply_off call that fails
MultiExitState(st, fail_off) ==
    LET off == switch_supply_off(st, fail_off)
    IN IF off.exc # "None" THEN off
       ELSE [off EXCEPT !.links = @ \ SeqRange(st.serial_ports),
                        !.serial_ports = <<>>]

\* SensorBridgeI2cChannelProvider.prepare_channel
PrepareChannel(st, port, gen, fail) ==
    IF fail.at = "open" THEN [st EXCEPT !.exc = "open_failed"]
    ELSE LET link == Link(gen, 1)
             opened == [st EXCEPT !.links = @ \cup {link},
                                  !.serial_ports = <<link>>,
                                  !.sensor_bridges = <<[link |-> link, ports |-> <<port>>]>>]
         IN IF fail.at = "setup" THEN [opened EXCEPT !.exc = "setup_failed"]
            ELSE [opened EXCEPT !.proxies = <<[link |-> link, port |-> port]>>,
                                !.powered = @ \cup {[cfg |-> 1, port |-> port]}]

\* SensorBridgeI2cChannelProvider.release_channel_resources
ReleaseChannelResources(st, fail_off) ==
    IF st.sensor_bridges = <<>> THEN st
    ELSE IF st.serial_ports = <<>> THEN [st EXCEPT !.exc = "AssertionError"]
    ELSE IF fail_off # 0 THEN [st EXCEPT !.exc = "supply_off_failed"]
    ELSE [st EXCEPT !.powered = @ \ {[cfg |-> 1, port |-> st.sensor_bridges[1].ports[1]]},
                    !.links = @ \ SeqRange(st.serial_ports),
                    !.serial_ports = <<>>]

BrCurrent ==
    BrState(br_links, br_serial_ports, br_proxies, br_sensor_bridges, br_powered)

\* the state of the object and of the hardware after an operation
BrBecomes(st) ==
    /\ br_links' = st.links
    /\ br_serial_ports' = st.serial_ports
    /\ br_proxies' = st.proxies
    /\ br_sensor_bridges' = st.sensor_bridges
    /\ br_powered' = st.powered

BrIdle ==
    /\ br_kind = "multi" /\ br_configs = <<>> /\ br_links = {}
    /\ br_serial_ports = <<>> /\ br_proxies = <<>> /\ br_sensor_bridges = <<>>
    /\ br_powered = {} /\ br_pc = "out" /\ br_last = [op |-> "none"] /\ br_count = 0

\* UsedPorts of each Config
SelectedPorts == {1, 2, 3}

\* I2cMultiSensorBridgeConnection(config_list, ...) with one or two
\* configurations, or SensorBridgeI2cChannelProvider(sensor_bridge_port, ...)
BrInit ==
    /\ \/ /\ br_kind = "multi"
          /\ br_configs \in UNION { [1..n -> SelectedPorts] : n \in 1..2 }
       \/ /\ br_kind = "provider"
          /\ br_configs \in { <<1>>, <<2>> }
    /\ br_links = {} /\ br_serial_ports = <<>> /\ br_proxies = <<>>
    /\ br_sensor_bridges = <<>> /\ br_powered = {}
    /\ br_pc = "out" /\ br_last = [op |-> "none"] /\ br_count = 0

BrOther == <<mcvars, mdvars, i2cvars, shvars, frvars, cdvars, smvars, imvars, xfvars,
             mtvars, bfvars>>

\* with connection: -- __enter__; when it raises, the body and __exit__ are
\* not run
MultiEnter ==
    /\ br_kind = "multi" /\ br_pc = "out" /\ br_count < MaxBrackets
    /\ \E fail \in EnterFailures(br_configs) :
         LET st == EnterLoop(BrCurrent, br_configs, 1, br_count + 1, fail) IN
         /\ BrBecomes(st)
         /\ br_pc' = IF st.exc = "None" THEN "in" ELSE "out"
         /\ br_last' = [op |-> "enter", exc |-> st.exc, channels |-> <<>>]
    /\ br_count' = br_count + 1
    /\ UNCHANGED <<br_kind, br_configs, BrOther>>

\* connection.get_multi_channel(i2c_address, crc) in the with-body
MultiGetMultiChannel ==
    /\ br_kind = "multi" /\ br_pc = "in"
    /\ br_last.op # "get_multi_channel"
    /\ br_last' = IF Len(br_proxies) > 0
                  THEN [op |-> "get_multi_channel", exc |-> "None",
                        channels |-> br_proxies]
                  ELSE [op |-> "get_multi_channel", exc |-> "AssertionError",
                        channels |-> <<>>]
    /\ UNCHANGED <<br_kind, br_configs, br_links, br_serial_ports, br_proxies,
                   br_sensor_bridges, br_powered, br_pc, br_count, BrOther>>

\* connection.switch_supply_off(), inside or outside the with-block
MultiSwitchSupplyOff ==
    /\ br_kind = "multi"
    /\ \E fail_off \in 0..Len(OffCalls(br_sensor_bridges)) :
         LET st == switch_supply_off(BrCurrent, fail_off) IN
         /\ BrBecomes(st)
         /\ br_last' = [op |-> "switch_supply_off", exc |-> st.exc, channels |-> <<>>]
    /\ UNCHANGED <<br_kind, br_configs, br_pc, br_count, BrOther>>

\* connection.switch_supply_on(), inside or outside the with-block
MultiSwitchSupplyOn ==
    /\ br_kind = "multi"
    /\ \E fail_on \in 0..Len(OffCalls(br_sensor_bridges)) :
         LET st == switch_supply_on(BrCurrent, fail_on) IN
         /\ BrBecomes(st)
         /\ br_last' = [op |-> "switch_supply_on", exc |-> st.exc, channels |-> <<>>]
    /\ UNCHANGED <<br_kind, br_configs, br_pc, br_count, BrOther>>

\* the with-body ends, normally or by raising: __exit__
MultiExit ==
    /\ br_kind = "multi" /\ br_pc = "in"
    /\ \E body_raises \in BOOLEAN, fail_off \in 0..Len(OffCalls(br_sensor_bridges)) :
         LET st == MultiExitState(BrCurrent, fail_off) IN
         /\ BrBecomes(st)
         /\ br_last' = [op |-> "exit",
                        exc |-> IF st.exc # "None" THEN st.exc
                                ELSE IF body_raises THEN "body_failed" ELSE "None",
                        channels |-> <<>>]
    /\ br_pc' = "out"
    /\ UNCHANGED <<br_kind, br_configs, br_count, BrOther>>

\* with provider: -- ChannelProvider.__enter__ calls prepare_channel, which
\* opens the port, sets the bridge up and then waits for the supply to settle
ProviderEnter ==
    /\ br_kind = "provider" /\ br_pc = "out" /\ br_count < MaxBrackets
    /\ \E at \in {"none", "open", "setup"} :
         LET st == PrepareChannel(BrCurrent, br_configs[1] - 1, br_count + 1,
                                  [cfg |-> 1, at |-> at, port |-> 1])
         IN
         /\ BrBecomes(st)
         /\ br_pc' = IF st.exc = "None" THEN "settling" ELSE "out"
         /\ br_last' = [op |-> IF st.exc = "None" THEN "prepare_channel" ELSE "enter",
                        exc |-> st.exc, channels |-> <<>>]
    /\ br_count' = br_count + 1
    /\ UNCHANGED <<br_kind, br_configs, BrOther>>

\* time.sleep(0.1) of prepare_channel is over and __enter__ returns
ProviderSettled ==
    /\ br_kind = "provider" /\ br_pc = "settling"
    /\ br_pc' = "in"
    /\ br_last' = [op |-> "enter", exc |-> "None", channels |-> <<>>]
    /\ UNCHANGED <<br_kind, br_configs, br_links, br_serial_ports, br_proxies,
                   br_sensor_bridges, br_powered, br_count, BrOther>>

\* ChannelProvider.__exit__ calls release_channel_resources
ProviderExit ==
    /\ br_kind = "provider" /\ br_pc = "in"
    /\ \E body_raises \in BOOLEAN, fail_off \in 0..1 :
         LET st == ReleaseChannelResources(BrCurrent, fail_off) IN
         /\ BrBecomes(st)
         /\ br_last' = [op |-> "exit",
                        exc |-> IF st.exc # "None" THEN st.exc
                                ELSE IF body_raises THEN "body_failed" ELSE "None",
                        channels |-> <<>>]
    /\ br_pc' = "out"
    /\ UNCHANGED <<br_kind, br_configs, br_count, BrOther>>

(* ---------------------- Transfer / execute_transfer ------------------------ *)
\* a Transfer subclass: its class attributes tx (None or the fields of a
\* TxData), rx (None or a descriptor) and post_processing_time (absent = None),
\* and what its pack() gives
NoTx == [present |-> FALSE, command_width |-> 0, device_busy_delay |-> 0,
         slave_address |-> None, ignore_acknowledge |-> FALSE]
SomeTx(cw, busy, addr, ignore) ==
    [present |-> TRUE, command_width |-> cw, device_busy_delay |-> busy,
     slave_address |-> addr, ignore_acknowledge |-> ignore]

Transfer_ignore_error(t) ==
    IF t.tx.present THEN t.tx.ignore_acknowledge ELSE FALSE
Transfer_command_width(t) ==
    IF ~t.tx.present THEN 0 ELSE t.tx.command_width
Transfer_device_busy_delay(t) ==
    IF ~t.tx.present THEN 0 ELSE t.tx.device_busy_delay
Transfer_slave_address(t) ==
    IF ~t.tx.present THEN None ELSE t.tx.slave_address
Transfer_post_processing_delay(t) == t.post_processing_time
Transfer_rx_data(t) == t.rx

\* the arguments of one channel.write_read call made for transfer t
WriteReadCall(t) ==
    [data |-> t.packed.bytes,
     command_width |-> Transfer_command_width(t),
     rx |-> Transfer_rx_data(t),
     device_busy_delay |-> Transfer_device_busy_delay(t),
     post_processing_delay |-> Transfer_post_processing_delay(t),
     slave_address |-> Transfer_slave_address(t),
     ignore_errors |-> Transfer_ignore_error(t)]

\* execute_transfer at its k-th transfer: the calls made so far, and whether
\* it has returned or raised
XfOutcome(k, calls, exc, ret, done) ==
    [k |-> k, calls |-> calls, exc |-> exc, ret |-> ret, done |-> done]

\* one pass of the loop over transfers[:-1], or the call for transfers[-1]:
\* t.pack() and channel.write_read for the k-th transfer; answer is what the
\* channel does in this write_read
TransferStep(transfers, k, calls, answer) ==
    LET t == transfers[k] IN
    IF ~t.packed.ok THEN XfOutcome(k, calls, t.packed.exc, PyNone, TRUE)
    ELSE LET made == Append(calls, WriteReadCall(t)) IN
         IF answer.raises THEN XfOutcome(k, made, answer.exc, PyNone, TRUE)
         ELSE IF k = Len(transfers) THEN XfOutcome(k, made, "None", answer.value, TRUE)
         ELSE XfOutcome(k + 1, made, "None", PyNone, FALSE)

\* execute_transfer that goes to its last transfer at once
execute_transfer_last_only(transfers) ==
    IF transfers = <<>> THEN XfOutcome(0, <<>>, "IndexError", PyNone, TRUE)
    ELSE XfOutcome(Len(transfers), <<>>, "None", PyNone, FALSE)

\* execute_transfer(channel, *args) up to its first transfer: transfers[-1] of
\* an empty list raises
execute_transfer(transfers) ==
    IF transfers = <<>> THEN XfOutcome(0, <<>>, "IndexError", PyNone, TRUE)
    ELSE XfOutcome(1, <<>>, "None", PyNone, FALSE)

XfPacked(bytes) == [ok |-> TRUE, exc |-> "None", bytes |-> bytes]
XfPackFails == [ok |-> FALSE, exc |-> "struct.error", bytes |-> <<>>]

\* a measurement command with a response, a command without TxData
\* attributes, a command with an address of its own, and one whose pack() raises
TransferSamples ==
    { [tx |-> SomeTx(2, 1, None, FALSE), rx |-> "'>H'", post_processing_time |-> None,
       packed |-> XfPacked(<<36, 22>>)],
      [tx |-> NoTx, rx |-> "None", post_processing_time |-> 2,
       packed |-> XfPacked(<<6>>)],
      [tx |-> SomeTx(1, 3, 69, TRUE), rx |-> "'>B'", post_processing_time |-> 4,
       packed |-> XfPacked(<<55, 0, 1>>)],
      [tx |-> SomeTx(2, 1, None, FALSE), rx |-> "None", post_processing_time |-> None,
       packed |-> XfPackFails] }

\* what channel.write_read does: return a tuple, return None, or raise
XfAnswers ==
    { [raises |-> FALSE, exc |-> "None", value |-> <<21>>],
      [raises |-> FALSE, exc |-> "None", value |-> <<22>>],
      [raises |-> FALSE, exc |-> "None", value |-> PyNone],
      [raises |-> TRUE, exc |-> "I2cChecksumError", value |-> PyNone] }

XfIdle == xf_transfers = <<>> /\ xf_result = [op |-> "pending"]

\* the caller's transfers t1..tn
XfInit ==
    /\ xf_transfers \in UNION { [1..n -> TransferSamples] : n \in 0..MaxTransfers }
    /\ xf_result = [op |-> "pending"]

\* what the caller of execute_transfer sees of it
XfResult(r, answers) ==
    [op |-> IF r.done THEN "execute_transfer" ELSE "running", k |-> r.k,
     answers |-> answers, calls |-> r.calls, exc |-> r.exc, ret |-> r.ret]

\* execute_transfer(channel, *xf_transfers) is called
XfExecute ==
    /\ xf_result = [op |-> "pending"]
    /\ xf_result' = XfResult(execute_transfer(xf_transfers), <<>>)
    /\ UNCHANGED <<xf_transfers, mcvars, mdvars, i2cvars, shvars, frvars, cdvars,
                   smvars, imvars, brvars, mtvars, bfvars>>

\* the next transfer is packed and handed to channel.write_read, which blocks
\* until the channel has answered
XfWriteRead ==
    /\ xf_result.op = "running"
    /\ \E answer \in XfAnswers :
         LET r == TransferStep(xf_transfers, xf_result.k, xf_result.calls, answer) IN
         xf_result' = XfResult(r, IF xf_transfers[xf_result.k].packed.ok
                                  THEN Append(xf_result.answers, answer)
                                  ELSE xf_result.answers)
    /\ UNCHANGED <<xf_transfers, mcvars, mdvars, i2cvars, shvars, frvars, cdvars,
                   smvars, imvars, brvars, mtvars, bfvars>>

\* the parts of the program a specification does not exercise
ImIdle ==
    /\ im_crc = "None" /\ im_address = 68 /\ im_mock_crc = "None" /\ im_i2c_address = 68
    /\ im_cmd_width = 2 /\ im_queue = <<>> /\ im_last_command = None
    /\ im_result = [op |-> "pending"] /\ im_count = 0 /\ im_updates = 0

\* the address the first channel is asked for
ImAddress == 68

\* MockI2cChannelProvider(command_width).get_channel(slave_address, crc): the
\* mock takes the address and the crc of the channel
ImInit ==
    /\ im_crc \in {"None"} \cup CrcFunctions
    /\ im_address = ImAddress
    /\ im_mock_crc = im_crc /\ im_i2c_address = im_address
    /\ im_cmd_width \in {1, 2}
    /\ im_queue = <<>> /\ im_last_command = None
    /\ im_result = [op |-> "pending"] /\ im_count = 0 /\ im_updates = 0

ImOther == <<mcvars, mdvars, i2cvars, shvars, frvars, cdvars, smvars, brvars, xfvars,
             mtvars, bfvars>>

\* one write_read through the mock channel
ImExchange ==
    /\ im_count < MaxExchanges
    /\ \E rq \in ImRequests, rs \in ImResponses, ad \in ImAddresses,
          ig \in BOOLEAN, rnd \in ImDraws :
         LET args == [tx_bytes |-> rq.tx_bytes, payload_offset |-> rq.payload_offset,
                      response |-> rs, device_busy_delay |-> 0,
                      post_processing_delay |-> None, slave_address |-> ad,
                      ignore_errors |-> ig]
         IN
         \E tx \in {build_tx_data(args.tx_bytes, args.payload_offset, im_crc)} :
         \E w \in {I2cMockWritten(im_queue, im_last_command, im_cmd_width, im_mock_crc, tx)} :
         \E r \in {I2cMock_read(w.queue, w.last_command, im_mock_crc, im_i2c_address,
                                TargetAddress(args.slave_address, im_address),
                                ExpectedLength(RequestedLength(args.response, im_crc)),
                                rnd)} :
         \E res \in {I2c_write_read(im_crc, im_address, args, I2cMockDevice(w, r))} :
         \E x \in {I2cMockExchange(im_crc, im_queue, args, tx, w, r, res)} :
            /\ im_result' = x
            /\ im_queue' = x.queue
            /\ im_last_command' = x.last_command
    /\ im_count' = im_count + 1
    /\ UNCHANGED <<im_crc, im_address, im_mock_crc, im_i2c_address, im_cmd_width,
                   im_updates, ImOther>>

\* the parameters the mock is switched to
ImParameterSamples ==
    { [slave_address |-> 70, crc |-> "None", cmd_width |-> None],
      [slave_address |-> 68, crc |-> "None", cmd_width |-> 1],
      [slave_address |-> 68, crc |-> "crc8", cmd_width |-> 2] }

\* I2cSensorMock.update_channel_parameters(slave_address, crc, cmd_width): the
\* queue and the last command stay
update_channel_parameters(cmd_width_now, slave_address, crc, cmd_width) ==
    [crc |-> crc, i2c_address |-> slave_address,
     cmd_width |-> IF cmd_width # None THEN cmd_width ELSE cmd_width_now]

\* sensor_mock.update_channel_parameters(...) between two exchanges
ImUpdateChannelParameters ==
    /\ im_updates < MaxUpdates
    /\ \E p \in ImParameterSamples :
         LET m == update_channel_parameters(im_cmd_width, p.slave_address, p.crc,
                                            p.cmd_width) IN
         /\ im_mock_crc' = m.crc
         /\ im_i2c_address' = m.i2c_address
         /\ im_cmd_width' = m.cmd_width
    /\ im_result' = [op |-> "update_channel_parameters"]
    /\ im_updates' = im_updates + 1
    /\ UNCHANGED <<im_crc, im_address, im_queue, im_last_command, im_count, ImOther>>

\* provider.get_channel(slave_address, crc) called again on the provider of
\* the one mock: the mock is switched to the new channel's parameters; the
\* caller goes on with the new channel (use) or with the one it had
ImGetChannel ==
    /\ im_updates < MaxUpdates
    /\ \E p \in ImParameterSamples, use \in BOOLEAN :
         LET m == update_channel_parameters(im_cmd_width, p.slave_address, p.crc, None) IN
         /\ im_mock_crc' = m.crc
         /\ im_i2c_address' = m.i2c_address
         /\ im_cmd_width' = m.cmd_width
         /\ im_crc' = IF use THEN p.crc ELSE im_crc
         /\ im_address' = IF use THEN p.slave_address ELSE im_address
    /\ im_result' = [op |-> "get_channel"]
    /\ im_updates' = im_updates + 1
    /\ UNCHANGED <<im_queue, im_last_command, im_count, ImOther>>

\* no thread has called, no bit field was touched
MtIdle ==
    /\ mt_pc = [t \in Chans |-> "idle"]
    /\ mt_selected = [t \in Chans |-> None]
    /\ mt_target = [t \in Chans |-> None]
    /\ mt_outcome = [t \in Chans |-> "none"]

BfIdle == bf_value = 0 /\ bf_last = [op |-> "none"]

(* ------------- threads calling MultiChannel.write_read -------------------- *)
\* the threads of the model, one per possible call of a transaction
Threads == Chans

\* the arguments of the call thread t makes
ThreadArgs(t) == CHOOSE a \in ArgSamples : (a.payload_offset = 1) <=> (t % 2 = 0)

MtOther == <<mdvars, i2cvars, shvars, frvars, cdvars, smvars, imvars, brvars, xfvars, bfvars>>

\* first statement of MultiChannel.write_read in thread t, the call on its
\* right-hand side: next(self._channel_iterator); the value is held by the
\* thread until it is stored
MtNext(t) ==
    /\ open /\ mt_pc[t] = "idle"
    /\ LET n == IterNext(channel_iterator) IN
         /\ channel_iterator' = n.it
         /\ mt_pc' = [mt_pc EXCEPT ![t] = IF n.ok THEN "fetched" ELSE "done"]
         /\ mt_selected' = [mt_selected EXCEPT ![t] = n.pos]
         /\ mt_outcome' = [mt_outcome EXCEPT ![t] = IF n.ok THEN "none" ELSE n.exc]
    /\ UNCHANGED <<active_channel, open, body_exc, chan_log, txn_calls, txn_count, last,
                   mt_target, MtOther>>

\* the store of the first statement in thread t: self._active_channel = ...
MtSelect(t) ==
    /\ mt_pc[t] = "fetched"
    /\ active_channel' = mt_selected[t]
    /\ mt_pc' = [mt_pc EXCEPT ![t] = "selected"]
    /\ UNCHANGED <<channel_iterator, open, body_exc, chan_log, txn_calls, txn_count, last,
                   mt_selected, mt_target, mt_outcome, MtOther>>

\* second statement in thread t: return self._active_channel.write_read(...);
\* first the attribute is read and the object read is held by the thread
MtRead(t) ==
    /\ mt_pc[t] = "selected"
    /\ mt_target' = [mt_target EXCEPT ![t] = active_channel]
    /\ mt_pc' = [mt_pc EXCEPT ![t] = "read"]
    /\ UNCHANGED <<channel_iterator, active_channel, open, body_exc, chan_log, txn_calls,
                   txn_count, last, mt_selected, mt_outcome, MtOther>>

\* then write_read is called on the object that was read, whatever the
\* attribute holds by now
MtForward(t) ==
    /\ mt_pc[t] = "read"
    /\ IF mt_target[t] = None
       THEN /\ mt_outcome' = [mt_outcome EXCEPT ![t] = "AttributeError"]
            /\ UNCHANGED chan_log
       ELSE \E sub \in ChannelOutcomes :
              /\ chan_log' = [chan_log EXCEPT ![mt_target[t]] =
                                 Append(@, [args |-> ThreadArgs(t), kind |-> sub.kind,
                                            val |-> sub.val])]
              /\ mt_outcome' = [mt_outcome EXCEPT ![t] = sub.val]
    /\ mt_pc' = [mt_pc EXCEPT ![t] = "done"]
    /\ UNCHANGED <<channel_iterator, active_channel, open, body_exc, txn_calls, txn_count,
                   last, mt_selected, mt_target, MtOther>>

MocksIdle == SmIdle /\ ImIdle /\ BrIdle /\ XfIdle /\ MtIdle /\ BfIdle

CoreIdle ==
    MCInit /\ MDIdle("seq") /\ I2cIdle /\ ShdlcIdle /\ FrIdle /\ CdIdle /\ MtIdle /\ BfIdle

Init == MCInit /\ MDIdle("seq") /\ I2cIdle /\ ShdlcIdle /\ FrIdle /\ CdIdle /\ MocksIdle

Next == Enter \/ WriteRead \/ BodyRaise \/ Exit

Spec == Init /\ [][Next]_vars

Modes == {"seq", "par"}

InitMD ==
    MCInit /\ I2cIdle /\ ShdlcIdle /\ FrIdle /\ CdIdle /\ MocksIdle
    /\ \E m \in Modes : MDIdle(m)

NextMD ==
    \/ SeqStart \/ SeqCall \/ SeqExit
    \/ CoStart \/ Submit \/ (\E i \in Chans : WorkerFinish(i)) \/ Collect \/ Shutdown
    \/ MDNextOp

SpecMD == InitMD /\ [][NextMD]_vars

InitI2c == MCInit /\ MDIdle("seq") /\ I2cInit /\ ShdlcIdle /\ FrIdle /\ CdIdle /\ MocksIdle

NextI2c == I2cWriteRead \/ I2cGeneralCallReset \/ I2cBusyOver \/ I2cReturn

SpecI2c == InitI2c /\ [][NextI2c]_vars

InitShdlc == MCInit /\ MDIdle("seq") /\ I2cIdle /\ ShdlcInit /\ FrIdle /\ CdIdle /\ MocksIdle

NextShdlc == ShdlcWriteRead \/ ShdlcMeanwhile \/ ShdlcReturn \/ ShdlcNextCall

SpecShdlc == InitShdlc /\ [][NextShdlc]_vars

InitFrame == MCInit /\ MDIdle("seq") /\ I2cIdle /\ ShdlcIdle /\ FrInit /\ CdIdle /\ MocksIdle

NextFrame == FrBuild \/ FrStrip \/ FrPass

SpecFrame == InitFrame /\ [][NextFrame]_vars

InitCodec == MCInit /\ MDIdle("seq") /\ I2cIdle /\ ShdlcIdle /\ FrIdle /\ CdInit /\ MocksIdle

NextCodec == CdUnpackDynamic \/ CdUnpack \/ CdConstruct \/ CdPack \/ CdUnpackPacked

SpecCodec == InitCodec /\ [][NextCodec]_vars


InitShdlcMock == CoreIdle /\ SmIdle /\ ImIdle /\ BrIdle /\ XfIdle

InitI2cMock == CoreIdle /\ SmIdle /\ ImInit /\ BrIdle /\ XfIdle

NextI2cMock == ImExchange \/ ImUpdateChannelParameters \/ ImGetChannel

SpecI2cMock == InitI2cMock /\ [][NextI2cMock]_vars

InitBridge == CoreIdle /\ SmIdle /\ ImIdle /\ BrInit /\ XfIdle

NextBridge ==
    \/ MultiEnter \/ MultiGetMultiChannel \/ MultiSwitchSupplyOff \/ MultiSwitchSupplyOn
    \/ MultiExit
    \/ ProviderEnter \/ ProviderSettled \/ ProviderExit

SpecBridge == InitBridge /\ [][NextBridge]_vars

InitTransfer == CoreIdle /\ SmIdle /\ ImIdle /\ BrIdle /\ XfInit

NextTransfer == XfExecute \/ XfWriteRead

SpecTransfer == InitTransfer /\ [][NextTransfer]_vars

\* threads sharing one MultiChannel
InitThreads ==
    /\ MCInit /\ MDIdle("seq") /\ I2cIdle /\ ShdlcIdle /\ FrIdle /\ CdIdle
    /\ SmIdle /\ ImIdle /\ BrIdle /\ XfIdle /\ MtIdle /\ BfIdle

NextThreads ==
    \/ Enter
    \/ (\E t \in Threads : MtNext(t))
    \/ (\E t \in Threads : MtSelect(t))
    \/ (\E t \in Threads : MtRead(t))
    \/ (\E t \in Threads : MtForward(t))

SpecThreads == InitThreads /\ [][NextThreads]_vars

(* --------------------------- BitfieldContainer ---------------------------- *)
\* x << n and x >> n of Python's unbounded integers
ShiftLeft(x, n) == x * Pow2(n)
ShiftRight(x, n) == x \div Pow2(n)

\* a & b, a | b and ~a of Python's unbounded integers (two's complement with
\* the sign repeated for ever)
RECURSIVE BitAnd(_, _)
BitAnd(a, b) ==
    IF a = 0 \/ b = 0 THEN 0
    ELSE IF a = -1 THEN b
    ELSE IF b = -1 THEN a
    ELSE (a % 2) * (b % 2) + 2 * BitAnd(a \div 2, b \div 2)

RECURSIVE BitOr(_, _)
BitOr(a, b) ==
    IF a = 0 THEN b
    ELSE IF b = 0 THEN a
    ELSE IF a = -1 \/ b = -1 THEN -1
    ELSE Max(a % 2, b % 2) + 2 * BitOr(a \div 2, b \div 2)

BitNot(a) == 0 - a - 1

\* BitField(offset, width)
BitField(offset, width) == [offset |-> offset, width |-> width]

\* BitfieldContainer._get_mask
_get_mask(width) == ShiftLeft(1, width) - 1

\* BitfieldContainer._get_value
_get_value(int_value, bitfield) ==
    BitAnd(ShiftRight(int_value, bitfield.offset), _get_mask(bitfield.width))

\* _set_value without the statement that clears the field first
_set_value_no_clear(int_value, bitfield, value) ==
    BitOr(int_value,
          ShiftLeft(BitAnd(value, _get_mask(bitfield.width)), bitfield.offset))

\* BitfieldContainer._set_value: the new _int_value
_set_value(int_value, bitfield, value) ==
    BitOr(BitAnd(int_value,
                 BitNot(ShiftLeft(_get_mask(bitfield.width), bitfield.offset))),
          ShiftLeft(BitAnd(value, _get_mask(bitfield.width)), bitfield.offset))

\* the BitField attributes of the container class: overlapping fields of one
\* and of three bits within the low MaxBits bits
BitFields == { BitField(o, w) : o \in {0, 2, MaxBits - 3}, w \in {1, 3} }

\* the integers assigned to a field: negative ones, ones that fit and ones
\* wider than any field
AssignedValues == {0 - 3, 0 - 1, 0, 2, 5, 9}

NoAssignment == [present |-> FALSE, field |-> BitField(0, 0), v |-> 0, before |-> 0]

\* BitfieldContainer(int_value)
BfInit ==
    /\ bf_value \in (0 - Pow2(MaxBits))..(Pow2(MaxBits) - 1)
    /\ bf_last = [op |-> "init", field |-> BitField(0, 0), got |-> None,
                  assigned |-> NoAssignment]

BfOther == <<mcvars, mdvars, i2cvars, shvars, frvars, cdvars, smvars, imvars, brvars,
             xfvars, mtvars>>

\* container.field = v -- __setattr__ with the name of a BitField
BfSet ==
    /\ \E f \in BitFields, v \in AssignedValues :
         /\ bf_value' = _set_value(bf_value, f, v)
         /\ bf_last' = [op |-> "set", field |-> f, got |-> None,
                        assigned |-> [present |-> TRUE, field |-> f, v |-> v,
                                      before |-> bf_value]]
    /\ UNCHANGED BfOther

\* x = container.field -- __getattribute__ with the name of a BitField
BfGet ==
    /\ \E f \in BitFields :
         bf_last' = [op |-> "get", field |-> f, got |-> _get_value(bf_value, f),
                     assigned |-> bf_last.assigned]
    /\ UNCHANGED <<bf_value, BfOther>>

InitBitfield ==
    /\ MCInit /\ MDIdle("seq") /\ I2cIdle /\ ShdlcIdle /\ FrIdle /\ CdIdle
    /\ SmIdle /\ ImIdle /\ BrIdle /\ XfIdle /\ MtIdle /\ BfInit

NextBitfield == BfSet \/ BfGet

SpecBitfield == InitBitfield /\ [][NextBitfield]_vars

\* one exchange on an I2C channel or on an SHDLC channel
InitChannels ==
    /\ MCInit /\ MDIdle("seq") /\ FrIdle /\ CdIdle /\ MocksIdle
    /\ \/ I2cInit /\ ShdlcIdle
       \/ I2cIdle /\ ShdlcInit

NextChannels ==
    \/ I2cWriteRead \/ I2cGeneralCallReset \/ I2cBusyOver \/ I2cReturn
    \/ ShdlcWriteRead \/ ShdlcReturn \/ ShdlcNextCall

SpecChannels == InitChannels /\ [][NextChannels]_vars

NextShdlcMock == SmWrite \/ SmRead \/ SmSetExpectedLength \/ SmTransceive

SpecShdlcMock == InitShdlcMock /\ [][NextShdlcMock]_vars

(* ------------------------ claims: MultiChannel -------------------------- *)
\* Exchanges received by the sub-channels since the last __enter__.
ExchangesInTxn == { i \in Chans : Len(chan_log[i]) > 0 }
\* The channel the most recent forwarded write_read of this transaction went to.
LatestSelected ==
    CHOOSE i \in ExchangesInTxn : \A j \in ExchangesInTxn : j <= i

\* C1: inside an open transaction the k-th write_read (1 <= k <= N) is forwarded
\* with unchanged arguments to the channel at position k-1 and to no other
\* channel, and the caller gets what that channel returned (or raised).
C1_ForwardInOrder ==
    (last.op = "write_read" /\ last.was_open /\ last.nth \in 1..NumChannels) =>
        /\ last.forwarded = last.nth - 1
        /\ \A i \in Chans : Len(chan_log[i]) = (IF i < last.nth THEN 1 ELSE 0)
        /\ chan_log[last.nth - 1][1] =
               [args |-> last.args, kind |-> last.outcome, val |-> last.result]

C1_Witness ==
    /\ last.op = "write_read" /\ last.was_open
    /\ last.nth = NumChannels /\ last.forwarded = NumChannels - 1
    /\ last.outcome = "return" /\ last.args.slave_address = 68

\* C2: the (N+1)-th write_read of a transaction fails with StopIteration
\* (iterator exhaustion) without any exchange, so no sub-channel ever receives
\* more than one exchange per transaction.
C2_ExhaustedCallFails ==
    /\ (last.op = "write_read" /\ last.was_open /\ last.nth = NumChannels + 1) =>
           /\ last.outcome = "raise" /\ last.result = "StopIteration"
           /\ last.forwarded = None
           /\ \A i \in Chans : Len(chan_log[i]) = 1
    /\ \A i \in Chans : Len(chan_log[i]) <= 1

C2_Witness ==
    /\ last.op = "write_read" /\ last.was_open /\ last.nth = NumChannels + 1
    /\ last.result = "StopIteration"

\* C3: after __exit__ the active-channel pointer and the iterator are both
\* cleared, whatever happened inside the transaction.
C3_CloseClears ==
    (last.op = "exit") => (active_channel = None /\ channel_iterator = None)

C3_Witness ==
    /\ last.op = "exit" /\ last.raised = "StopIteration"
    /\ txn_calls = NumChannels + 1
    /\ active_channel = None /\ channel_iterator = None

\* C4: a failure raised by the body of the transaction is what the caller of
\* the bracket observes; __exit__ neither suppresses nor replaces it.
C4_ExitDoesNotMask ==
    (last.op = "exit" /\ last.raised # "None") => last.observed = last.raised

C4_Witness ==
    last.op = "exit" /\ last.raised = "BodyError" /\ last.observed = "BodyError"

\* C5: write_read with no transaction open fails and reaches no sub-channel.
C5_NoTransactionNoExchange ==
    (last.op = "write_read" /\ ~last.was_open) =>
        (last.outcome = "raise" /\ last.forwarded = None)

C5_Witness ==
    /\ last.op = "write_read" /\ ~last.was_open /\ last.outcome = "raise"
    /\ Len(chan_log[0]) = 1

\* C6: timeout is the timeout of the channel selected by the latest write_read
\* inside an open transaction, and the first channel's timeout whenever no
\* transaction is open.
C6_Timeout ==
    /\ (open /\ ExchangesInTxn # {}) =>
           MC_timeout(active_channel) = ChannelTimeout(LatestSelected)
    /\ (~open) => MC_timeout(active_channel) = ChannelTimeout(0)

C6_Witness ==
    /\ ~open /\ last.op = "exit" /\ Len(chan_log[1]) = 1
    /\ MC_timeout(active_channel) = ChannelTimeout(0)

(* ------------------------ claims: multi-driver -------------------------- *)
\* C7: a wrapped operation that returns yields an N-tuple whose i-th element is
\* what the driver of channel i produced, in sequential mode and in concurrent
\* mode for every completion order of the workers.
C7_OrderedTuple ==
    (md_pc = "returned") =>
        /\ Len(md_ret) = NumChannels
        /\ \A i \in Chans : md_ret[i + 1] = produced[i]

C7_Witness ==
    /\ md_mode = "par" /\ md_pc = "returned"
    /\ finish_order[1] = NumChannels - 1 /\ finish_order[NumChannels] = 0
    /\ produced[0] = "a" /\ produced[NumChannels - 1] = "b"
    /\ md_ret[1] = "a"

\* C8: in concurrent mode one operation starts exactly one worker call per
\* channel, the caller gets control back (value or failure) only after all of
\* them completed, and a failing worker means a failure, never a tuple.
C8_JoinAll ==
    /\ \A i \in Chans : started[i] <= 1
    /\ (md_mode = "par" /\ md_pc \in {"returned", "raised"}) =>
           /\ \A i \in Chans : started[i] = 1 /\ worker[i] \in Done
           /\ (\E i \in Chans : worker[i] = "failed") =>
                  (md_pc = "raised" /\ md_ret = <<>>)

C8_Witness ==
    /\ md_mode = "par" /\ md_pc = "raised" /\ md_exc.pending = NumChannels - 1
    /\ \A i \in Chans : worker[i] \in Done

(* ------------------------- claims: I2cChannel --------------------------- *)
\* C9: when the exchange, the checksum validation or the decoding fails,
\* I2cChannel.write_read returns no result if ignore_errors is set and raises
\* that same failure if it is not set.
C9_IgnoreErrors ==
    (i2c_result # I2cPending /\ ~i2c_result.exec.ok) =>
        /\ i2c_result.exec.stage \in {"exchange", "checksum", "decode"}
        /\ IF i2c_result.ignore_errors
           THEN i2c_result.outcome = "return" /\ i2c_result.isNone
           ELSE i2c_result.outcome = "raise" /\ i2c_result.exc = i2c_result.exec.exc

C9_Witness ==
    /\ i2c_result # I2cPending /\ i2c_result.op = "write_read"
    /\ i2c_result.ignore_errors /\ i2c_result.exec.stage = "checksum"
    /\ i2c_result.exec.exc = "I2cChecksumError"
    /\ i2c_result.outcome = "return" /\ i2c_result.isNone

(* ------------------------ claims: ShdlcChannel -------------------------- *)
\* C10: with ignore_errors set, ShdlcChannel.write_read returns no result
\* instead of failing when the transceiver exchange fails, the echoed address
\* or command mismatches, the device reports an error code, or decoding fails.
C10_IgnoreErrorsSwallowed ==
    (/\ sh_result # ShdlcPending
     /\ sh_result.ignore_errors
     /\ sh_result.stage \in {"exchange", "address", "command", "device", "decode"})
        => (sh_result.outcome = "return" /\ sh_result.isNone)

\* The exchange took place: the request was well formed and the transceiver
\* answered.
ShdlcAnswered ==
    /\ sh_result # ShdlcPending
    /\ sh_result.stage # "request"
    /\ sh_dev.kind = "ok"

\* C11: when the echoed address or the echoed command differs from what was
\* sent, write_read fails with ShdlcResponseError; the address is checked
\* before the command, and neither the status nor the payload is looked at.
C11_EchoMismatch ==
    (ShdlcAnswered /\ (sh_dev.addr_delta # 0 \/ sh_dev.cmd_delta # 0)) =>
        /\ sh_result.outcome = "raise"
        /\ sh_result.exc = "ShdlcResponseError"
        /\ sh_result.stage = (IF sh_dev.addr_delta # 0 THEN "address" ELSE "command")
        /\ sh_result.events = <<"transceive">>
        /\ sh_result.error_code = 0 /\ ~sh_result.decoded

C11_Witness ==
    /\ ShdlcAnswered
    /\ sh_dev.addr_delta # 0 /\ sh_dev.cmd_delta # 0 /\ sh_dev.state = 131
    /\ ~sh_args.response.isNone
    /\ sh_result.stage = "address" /\ sh_result.exc = "ShdlcResponseError"

\* C12: with matching address and command, write_read fails with
\* ShdlcDeviceError exactly when the low 7 bits of the status are nonzero, the
\* error carries those 7 bits; status 0x00 and status 0x80 are no failure.
C12_StatusByte ==
    (ShdlcAnswered /\ sh_dev.addr_delta = 0 /\ sh_dev.cmd_delta = 0) =>
        /\ (sh_result.exc = "ShdlcDeviceError") <=> (sh_dev.state % 128 # 0)
        /\ (sh_dev.state % 128 # 0) =>
               /\ sh_result.outcome = "raise" /\ sh_result.stage = "device"
               /\ sh_result.error_code = sh_dev.state % 128
        /\ (sh_dev.state \in {0, 128}) => sh_result.stage \in {"none", "decode"}
        /\ (sh_dev.state \in {0, 128} /\ sh_args.response.isNone) =>
               sh_result.outcome = "return"

C12_Witness ==
    /\ ShdlcAnswered /\ sh_dev.addr_delta = 0 /\ sh_dev.cmd_delta = 0
    /\ sh_dev.state = 131
    /\ sh_result.exc = "ShdlcDeviceError" /\ sh_result.error_code = 3

\* C20: a validated SHDLC response is decoded with unpack_dynamic_sized
\* whenever a response descriptor is supplied, whatever its fields, and the
\* raw payload is returned when none is supplied.
C20_DynamicDecoder ==
    (/\ ShdlcAnswered /\ sh_dev.addr_delta = 0 /\ sh_dev.cmd_delta = 0
     /\ sh_dev.state % 128 = 0) =>
        IF sh_args.response.isNone
        THEN /\ sh_result.outcome = "return" /\ ~sh_result.decoded
             /\ sh_result.raw = sh_dev.data
        ELSE LET u == unpack_dynamic_sized(sh_args.response, sh_dev.data) IN
             /\ (sh_result.outcome = "return") <=> u.ok
             /\ u.ok => (sh_result.decoded /\ sh_result.vals = u.vals)
             /\ ~u.ok => sh_result.exc = u.exc

C20_Witness ==
    /\ ShdlcAnswered /\ sh_dev.state = 0
    /\ sh_args.response = RxData(">", <<>>, FALSE)
    /\ sh_dev.data = <<190, 239>>
    /\ sh_result.outcome = "return" /\ sh_result.decoded /\ sh_result.vals = <<>>

\* the framed buffer reached the stripping function
FrStripped == fr_pc \in {"pass", "done"} /\ fr_crc \in CrcFunctions

\* C13 as stated: for every payload, the empty one included, and every
\* checksum function, strip_and_check_crc(build_tx_data(payload, 0, crc), crc)
\* is the payload.
C13_RoundTripEveryPayload ==
    (FrStripped /\ fr_cmd_width = 0 /\ fr_tamper = NoTamper) =>
        (fr_stripped.ok /\ fr_stripped.data = fr_tx)

\* C13: for every non-empty payload (odd lengths included) and every checksum
\* function, strip_and_check_crc(build_tx_data(payload, 0, crc), crc) is the
\* payload; for the empty payload build_tx_data returns None, which
\* strip_and_check_crc does not accept.
C13_RoundTrip ==
    (FrStripped /\ fr_cmd_width = 0 /\ fr_tamper = NoTamper) =>
        IF fr_tx # <<>>
        THEN fr_stripped.ok /\ fr_stripped.data = fr_tx
        ELSE fr_framed.ret = PyNone /\ ~fr_stripped.ok /\ fr_stripped.exc = "TypeError"

C13_Witness ==
    /\ FrStripped /\ fr_cmd_width = 0 /\ fr_tamper = NoTamper /\ fr_crc = "crc8"
    /\ fr_tx = <<3, 232, 137>>
    /\ fr_framed.ret = <<3, 232, 212, 137>>
    /\ fr_stripped.ok /\ fr_stripped.data = <<3, 232, 137>>

\* a checksum byte of the framed payload was changed in transit
ChecksumTampered ==
    /\ FrStripped /\ fr_cmd_width = 0
    /\ fr_framed.ret # PyNone
    /\ fr_tamper.at >= 1 /\ fr_tamper.at <= Len(fr_framed.ret)
    /\ fr_tamper.at % 3 = 0

\* C14: when one inserted checksum byte of a framed buffer is changed,
\* strip_and_check_crc returns no data and fails with I2cChecksumError carrying
\* the received byte of that position, the checksum of the two bytes before it
\* and the buffer it was given.
C14_ChecksumError ==
    ChecksumTampered =>
        LET at == fr_tamper.at
            wire == fr_wire.buf
        IN
        /\ wire = [fr_framed.ret EXCEPT ![at] = (@ + fr_tamper.delta) % 256]
        /\ ~fr_stripped.ok /\ fr_stripped.data = PyNone
        /\ fr_stripped.exc = "I2cChecksumError"
        /\ fr_stripped.received = wire[at]
        /\ fr_stripped.received # fr_framed.ret[at]
        /\ fr_stripped.expected = CrcApply(fr_crc, wire[at - 2], wire[at - 1])
        /\ fr_stripped.expected = fr_framed.ret[at]
        /\ fr_stripped.buffer = wire

C14_Witness ==
    /\ ChecksumTampered /\ fr_crc = "crc8" /\ fr_tamper = [at |-> 6, delta |-> 128]
    /\ fr_tx = <<3, 232, 137, 3>>
    /\ fr_stripped.exc = "I2cChecksumError"
    /\ fr_stripped.expected = Crc8(137, 3)
    /\ fr_stripped.received = (Crc8(137, 3) + 128) % 256

\* C15: with a checksum function, build_tx_data(tx, cmd_width, crc) is the
\* first cmd_width bytes of tx followed by the n remaining bytes in order, with
\* the checksum of each pair inserted after its second byte, cmd_width + n +
\* n \div 2 bytes in all.
C15_FrameLayout ==
    (/\ fr_pc # "build" /\ fr_crc \in CrcFunctions
     /\ fr_tx # <<>> /\ fr_cmd_width <= Len(fr_tx)) =>
        LET w == fr_cmd_width
            n == Len(fr_tx) - w
            out == fr_framed.ret
        IN
        /\ out # PyNone
        /\ Len(out) = w + n + n \div 2
        /\ \A j \in 1..w : out[j] = fr_tx[j]
        /\ \A k \in 0..(n - 1) : out[w + k + k \div 2 + 1] = fr_tx[w + k + 1]
        /\ \A q \in 1..(n \div 2) :
               out[w + 3 * q] = CrcApply(fr_crc, fr_tx[w + 2 * q - 1], fr_tx[w + 2 * q])

C15_Witness ==
    /\ fr_pc # "build" /\ fr_crc = "crc8"
    /\ pack(TxData(137, ">", <<Field(NoLen, "B"), Field(NoLen, "H")>>),
            <<IntVal(1000)>>) = PackOk(fr_tx)
    /\ fr_cmd_width = command_width(TxData(137, ">", <<Field(NoLen, "B"), Field(NoLen, "H")>>))
    /\ fr_framed.ret = <<137, 3, 232, Crc8(3, 232)>>
    /\ Crc8(3, 232) = 212

\* C16 as stated: without a checksum function build_tx_data returns every
\* byte sequence unchanged and strip_protocol returns every byte sequence
\* unchanged.
C16_NoFramingEverySequence ==
    (fr_pc = "done" /\ fr_crc = "None") =>
        /\ fr_framed.ret = fr_tx
        /\ fr_passed.ok /\ fr_passed.data = fr_tx

\* C16: without a checksum function build_tx_data returns every non-empty
\* byte sequence unchanged (None for the empty one) and strip_protocol returns
\* every byte sequence unchanged.
C16_NoFraming ==
    (fr_pc = "done" /\ fr_crc = "None") =>
        /\ fr_framed.ret = (IF fr_tx = <<>> THEN PyNone ELSE fr_tx)
        /\ fr_passed.ok /\ fr_passed.data = fr_tx

C16_Witness ==
    /\ fr_pc = "done" /\ fr_crc = "None" /\ fr_cmd_width = 0
    /\ fr_tx = <<3, 232, 137, 3>>
    /\ fr_framed.ret = <<3, 232, 137, 3>>
    /\ fr_passed.ok /\ fr_passed.data = <<3, 232, 137, 3>>

\* unpack_dynamic_sized returned a tuple for the drawn bytes, without folding
DecodedPlain ==
    /\ cd_pc = "done" /\ cd_data.given /\ ~cd_convert
    /\ cd_unpacked.ok

\* k is a counted field and every field before it has no count
FirstCounted(k) ==
    /\ k \in 1..Len(cd_descriptor.fields)
    /\ cd_descriptor.fields[k].len # NoLen
    /\ \A j \in 1..(k - 1) : cd_descriptor.fields[j].len = NoLen

\* the bytes of the fields before field k
OffsetOf(k) == CalcSize(SubSeq(cd_descriptor.fields, 1, k - 1))

\* the part of the field's window before its first zero byte
UpToZero(win) ==
    LET zeros == { j \in 1..Len(win) : win[j] = 0 } IN
    IF zeros = {} THEN win
    ELSE SubSeq(win, 1, (CHOOSE z \in zeros : \A y \in zeros : z <= y) - 1)

\* C17: in dynamic decoding a string field of maximum length L is the bytes of
\* its window up to the first zero byte, the zero excluded; an array field of
\* another type is not ended by a zero byte and holds every declared element
\* the data has.
C17_StringEndsAtZero ==
    DecodedPlain =>
        \A k \in 1..Len(cd_descriptor.fields) :
            FirstCounted(k) =>
                LET f == cd_descriptor.fields[k]
                    d == cd_data.bytes
                    pos == OffsetOf(k)
                    size == ElemSize(f.code)
                    win == SubSeq(d, pos + 1, Min(pos + size * f.len, Len(d)))
                    n == Min(f.len, Len(win) \div size)
                    v == cd_unpacked.vals[k]
                IN
                IF f.code = "s"
                THEN /\ v.t = "str"
                     /\ Utf8Encode(v.v) = [ok |-> TRUE, v |-> UpToZero(win)]
                     /\ \A j \in 1..Len(v.v) : v.v[j] # 0
                ELSE /\ v.t = "arr" /\ Len(v.v) = n
                     /\ \A e \in 1..n :
                            v.v[e] = DecodeElem(cd_descriptor.order, f.code,
                                         SubSeq(win, (e - 1) * size + 1, e * size))

C17_Witness ==
    /\ DecodedPlain
    /\ cd_descriptor = Desc(">", <<Field(8, "s")>>)
    /\ cd_data.bytes = <<97, 98, 99, 0, 0, 0, 0, 0>>
    /\ cd_unpacked.vals = <<StrVal(<<97, 98, 99>>)>>

\* C18: in dynamic decoding a field without count that follows an array field
\* is decoded from the bytes after the last element of the array.
C18_CursorPastArray ==
    DecodedPlain =>
        \A k \in 1..(Len(cd_descriptor.fields) - 1) :
            LET f == cd_descriptor.fields[k]
                g == cd_descriptor.fields[k + 1]
                d == cd_data.bytes
                after == OffsetOf(k) + ElemSize(f.code) * Len(cd_unpacked.vals[k].v)
            IN
            (/\ FirstCounted(k) /\ f.code # "s" /\ g.len = NoLen
             /\ after + ElemSize(g.code) <= Len(d)) =>
                cd_unpacked.vals[k + 1] =
                    FixedVal(cd_descriptor.order, g.code,
                             SubSeq(d, after + 1, after + ElemSize(g.code)))

\* every field has no count and an integer or truth-value format
FixedWidthOnly(fields) ==
    \A k \in 1..Len(fields) :
        /\ fields[k].len = NoLen
        /\ fields[k].code \in {"b", "B", "h", "H", "i", "I", "l", "L", "q", "Q", "?"}

\* the values handed to pack: the command id, then the arguments
PackedValues == <<IntVal(cd_values.cmd_id)>> \o cd_values.args

\* the values fit the fields one to one (pack succeeded) and a truth-value
\* field is given 0 or 1
ValuesInRange ==
    /\ cd_packed.ok
    /\ Len(PackedValues) = Len(cd_descriptor.fields)
    /\ \A k \in 1..Len(PackedValues) :
           /\ PackedValues[k].t = "int"
           /\ cd_descriptor.fields[k].code = "?" => PackedValues[k].v[1] \in {0, 1}

\* C19: for a descriptor of fields without count and in-range values, the
\* command id first, RxData.unpack of the packed bytes returns those values.
C19_PackUnpackRoundTrip ==
    (/\ cd_values.given /\ cd_pc \in {"packed", "done"}
     /\ FixedWidthOnly(cd_descriptor.fields) /\ ValuesInRange) =>
        (cd_pc = "done" => (cd_round.ok /\ cd_round.vals = PackedValues))

(* ---------------- C21 .. C28: packing, construction, folding -------------- *)
\* pack ran on a command id, one string field of width L and one string
\* argument longer than L
OverlongString ==
    /\ cd_values.given /\ cd_packed # CdPending
    /\ Len(cd_descriptor.fields) = 2
    /\ cd_descriptor.fields[1] = Field(NoLen, "H")
    /\ InRange("H", cd_values.cmd_id)
    /\ cd_descriptor.fields[2].code = "s" /\ cd_descriptor.fields[2].len > 0
    /\ Len(cd_values.args) = 1 /\ cd_values.args[1].t = "str"
    /\ Len(cd_values.args[1].v) > cd_descriptor.fields[2].len

\* the first L characters of the string argument
FirstCharacters ==
    SubSeq(cd_values.args[1].v, 1, cd_descriptor.fields[2].len)

\* the bytes of the command id
CommandBytes == IntToBytes(cd_descriptor.order, 2, cd_values.cmd_id)

\* C21 as stated: packing an over-long string does not fail, the output holds
\* the encoding of exactly the first L characters, and it is as long as the
\* output for a string of length L.
C21_TruncatesToCharacters ==
    OverlongString =>
        /\ cd_packed.ok
        /\ cd_packed.data = CommandBytes \o Utf8Encode(FirstCharacters).v
        /\ Len(cd_packed.data) =
               Len(pack(cd_init.tx, <<StrVal(FirstCharacters)>>).data)

\* C21: packing a string longer than the declared width L does not fail; the
\* first L characters are encoded and the field keeps the first L bytes of
\* that encoding, which is all of it when each character encodes to one byte;
\* the output is as long as the output for a string of length L.
C21_TruncatesToWidth ==
    OverlongString =>
        LET L == cd_descriptor.fields[2].len
            enc == Utf8Encode(FirstCharacters).v
        IN /\ cd_packed.ok
           /\ cd_packed.data = CommandBytes \o SubSeq(enc, 1, L)
           /\ (\A j \in 1..L : FirstCharacters[j] < 128) =>
                  cd_packed.data = CommandBytes \o enc
           /\ Len(cd_packed.data) =
                  Len(pack(cd_init.tx, <<StrVal(FirstCharacters)>>).data)
           /\ Len(cd_packed.data) = 2 + L

C21_Witness ==
    /\ OverlongString
    /\ cd_descriptor.fields[2].len = 2
    /\ cd_values.cmd_id = 1
    /\ cd_values.args = <<StrVal(<<97, 98, 99>>)>>
    /\ cd_packed.ok /\ cd_packed.data = <<0, 1, 97, 98>>

\* C22: constructing a TxData with more than one string field fails with
\* NotImplementedError, and a descriptor with no or one string field is
\* accepted.
C22_StringFieldLimit ==
    cd_init # CdPending =>
        IF Cardinality(StringFields(cd_descriptor.fields)) > 1
        THEN ~cd_init.ok /\ cd_init.exc = "NotImplementedError"
        ELSE cd_init.ok

\* unpack was applied to received bytes
Unpacked == cd_pc = "unpacked" /\ cd_data.given

\* C27: unpack of a descriptor none of whose fields declares a count is the
\* direct decode, which succeeds exactly when the data is as long as the
\* descriptor's size.
C27_DirectDecodeWithoutCounts ==
    (Unpacked /\ \A k \in 1..Len(cd_descriptor.fields) :
                     cd_descriptor.fields[k].len = NoLen) =>
        (cd_round.ok <=> Len(cd_data.bytes) = CalcSize(cd_descriptor.fields))

\* dynamic decoding with folding succeeded
DecodedFolded ==
    /\ cd_pc = "done" /\ cd_data.given /\ cd_convert
    /\ cd_unpacked.ok

\* the elements of counted field k that the data holds
FieldElements(k) ==
    LET f == cd_descriptor.fields[k]
        size == ElemSize(f.code)
        avail == (Len(cd_data.bytes) - OffsetOf(k)) \div size
    IN ElementsAt(cd_descriptor.order, f.code, Min(f.len, Max(avail, 0)), size,
                  cd_data.bytes, OffsetOf(k))

\* sum of e_i * 2^(W * (N - i))
RECURSIVE FoldSum(_, _)
FoldSum(w, e) ==
    IF e = <<>> THEN 0
    ELSE FoldSum(w, SubSeq(e, 1, Len(e) - 1)) * Pow2(w) + e[Len(e)]

\* C28 as stated: with folding a counted field of N elements of width W
\* decodes to the sum of e_i * 2^(W * (N - i)), and to 0 when N is 0.
C28_FoldEveryElement ==
    DecodedFolded =>
        \A k \in 1..Len(cd_descriptor.fields) :
            FirstCounted(k) =>
                cd_unpacked.vals[k] =
                    IntVal(FoldSum(8 * ElemSize(cd_descriptor.fields[k].code),
                                   FieldElements(k)))

\* C28: with folding a counted field whose N elements of width W are not
\* negative decodes to the sum of e_i * 2^(W * (N - i)), and to 0 when N is 0.
C28_FoldUnsigned ==
    DecodedFolded =>
        \A k \in 1..Len(cd_descriptor.fields) :
            (FirstCounted(k) /\ \A j \in 1..Len(FieldElements(k)) :
                                    FieldElements(k)[j] >= 0) =>
                cd_unpacked.vals[k] =
                    IntVal(FoldSum(8 * ElemSize(cd_descriptor.fields[k].code),
                                   FieldElements(k)))

C28_Witness ==
    /\ DecodedFolded
    /\ cd_descriptor = Desc(">", <<Field(3, "B"), Field(NoLen, "H")>>)
    /\ cd_data.bytes = <<97, 200, 0>>
    /\ cd_unpacked.vals[1] = IntVal(97 * 65536 + 200 * 256)

\* folding a field the data holds no element of
C28_WitnessEmpty ==
    /\ DecodedFolded
    /\ cd_descriptor = Desc(">", <<Field(2, "b")>>)
    /\ cd_data.bytes = <<>>
    /\ cd_unpacked.vals = <<IntVal(0)>>

(* ---------------- C29: the length asked of the connection ---------------- *)
\* the arguments of the call that was made
I2cCallArgs ==
    IF i2c_result.op = "general_call_reset" THEN GeneralCallArgs ELSE i2c_args

\* the connection got as far as reading from the device
I2cReadDone ==
    /\ i2c_result # I2cPending
    /\ \E j \in 1..Len(i2c_result.exec.events) : i2c_result.exec.events[j] = "read"

\* C29: write_read asks the connection for 3 * rx_length / 2 bytes (rounded
\* down) when a checksum function is configured and a response descriptor is
\* given, for rx_length bytes without a checksum function, and for no bytes
\* when no response is expected; the connection reads that many bytes.
C29_RequestedLength ==
    i2c_result # I2cPending =>
        LET response == I2cCallArgs.response
            L == rx_length(response)
        IN /\ (~response.isNone /\ i2c_crc # "None") =>
                  i2c_result.rx_len = (3 * L) \div 2
           /\ (~response.isNone /\ i2c_crc = "None") => i2c_result.rx_len = L
           /\ response.isNone => i2c_result.rx_len = None
           /\ I2cReadDone =>
                  i2c_result.exec.read_len =
                      IF response.isNone THEN 0 ELSE i2c_result.rx_len

C29_Witness ==
    /\ I2cReadDone
    /\ i2c_crc # "None"
    /\ i2c_args.response = RxData(">", <<Field(NoLen, "B"), Field(NoLen, "H")>>, FALSE)
    /\ i2c_result.op = "write_read"
    /\ i2c_result.rx_len = 4 /\ i2c_result.exec.read_len = 4

(* ---------------- C23: the SHDLC mock serves writes in order -------------- *)
\* the last call read from the queue
SmReadCall == sm_last.op \in {"read", "transceive"}

\* the writes not yet taken off the queue when the last call read
SmOutstanding ==
    Len(sm_written) - (sm_popped - (IF sm_last.popped THEN 1 ELSE 0))

\* C23: a read is answered from the oldest write not yet served; it fails
\* with AssertionError when that write's command id differs from the read's
\* and with IndexError when no write is queued.
C23_FifoOrder ==
    SmReadCall =>
        IF SmOutstanding = 0
        THEN sm_last.exc = "IndexError" /\ ~sm_last.popped
        ELSE /\ sm_last.popped
             /\ sm_last.served = sm_written[sm_popped]
             /\ sm_last.exc = (IF sm_last.served.cmd # sm_last.cmd_id
                               THEN "AssertionError" ELSE "None")
             /\ sm_last.exc = "None" => Len(sm_last.answer) = sm_last.n

C23_Witness ==
    /\ sm_last.op = "read" /\ sm_last.exc = "None"
    /\ Len(sm_written) = 2 /\ sm_written[1].cmd # sm_written[2].cmd
    /\ sm_popped = 1 /\ sm_last.served = sm_written[1]
    /\ sm_queue = <<sm_written[2]>>

\* a read meets the command id of another write
C23_WitnessMismatch ==
    /\ sm_last.op = "read" /\ sm_last.exc = "AssertionError"
    /\ sm_queue = <<>> /\ Len(sm_written) = 1

\* a read with nothing queued
C23_WitnessEmpty ==
    /\ sm_last.op = "read" /\ sm_last.exc = "IndexError"

(* ---------------- C24: lengths through the I2C mock ----------------------- *)
\* an exchange with a response descriptor got as far as the mock's read
ImAnswered ==
    /\ im_result.op = "exchange"
    /\ ~im_result.args.response.isNone
    /\ im_result.read_done

\* C24: in every exchange with a response descriptor of rx_length L the
\* response provider is asked for exactly L bytes and exactly L bytes reach
\* the decoder, with and without a checksum function, for odd and even L.
C24_ProviderAskedForLength ==
    ImAnswered =>
        LET L == rx_length(im_result.args.response) IN
        /\ im_result.asked.len = L
        /\ im_result.decoding => im_result.decoder_len = L

(* ---------------- C25: brackets release what they opened ------------------ *)
\* C25: outside a bracket no serial port is open: every port a bracket opened
\* is closed when its body completed or raised, when __enter__ failed part-way
\* and when switching the supply off failed.
C25_LinksReleased ==
    br_pc = "out" => br_links = {}

(* ---------------- C26: execute_transfer runs the transfers in order -------- *)
XfDone == xf_result.op = "execute_transfer" /\ Len(xf_transfers) >= 1

\* the first transfer whose pack() or write_read raises, or n + 1
RECURSIVE XfFirstFailure(_)
XfFirstFailure(k) ==
    IF k > Len(xf_transfers) THEN k
    ELSE IF ~xf_transfers[k].packed.ok THEN k
    ELSE IF k <= Len(xf_result.answers) /\ xf_result.answers[k].raises THEN k
    ELSE XfFirstFailure(k + 1)

\* C26: execute_transfer(channel, t1, ..., tn) makes one write_read per
\* transfer, in argument order, each with that transfer's packed bytes, command
\* width, response descriptor, delays, address and ignore flag; it returns what
\* the last write_read returned, and after a failing write_read (or pack) no
\* later transfer is executed.
C26_OneExchangePerTransfer ==
    XfDone =>
      LET n == Len(xf_transfers)
          f == XfFirstFailure(1)
          calls == xf_result.calls
      IN /\ Len(calls) = (IF f > n THEN n
                          ELSE IF xf_transfers[f].packed.ok THEN f ELSE f - 1)
         /\ \A k \in 1..Len(calls) :
              LET t == xf_transfers[k] c == calls[k] IN
              /\ c.data = t.packed.bytes
              /\ c.command_width = (IF t.tx.present THEN t.tx.command_width ELSE 0)
              /\ c.rx = t.rx
              /\ c.device_busy_delay = (IF t.tx.present THEN t.tx.device_busy_delay ELSE 0)
              /\ c.post_processing_delay = t.post_processing_time
              /\ c.slave_address = (IF t.tx.present THEN t.tx.slave_address ELSE None)
              /\ c.ignore_errors = (t.tx.present /\ t.tx.ignore_acknowledge)
         /\ (f > n) <=> (xf_result.exc = "None")
         /\ f > n => xf_result.ret = xf_result.answers[n].value
         /\ f <= n => xf_result.exc = (IF xf_transfers[f].packed.ok
                                       THEN xf_result.answers[f].exc
                                       ELSE xf_transfers[f].packed.exc)

\* three transfers were executed and the last one's tuple came back
C26_Witness ==
    /\ XfDone /\ Len(xf_transfers) = 3 /\ Len(xf_result.calls) = 3
    /\ xf_result.exc = "None" /\ xf_result.ret = <<22>>
    /\ xf_result.answers[1].value = <<21>>
    /\ xf_transfers[1] # xf_transfers[2] /\ xf_transfers[2] # xf_transfers[3]

\* the second write_read raised and the third transfer was not executed
C26_WitnessFailure ==
    /\ XfDone /\ Len(xf_transfers) = 3 /\ Len(xf_result.calls) = 2
    /\ xf_result.answers[2].raises /\ xf_result.exc = "I2cChecksumError"

(* ---------------- C30: where the two waits are made ------------------------ *)
\* the busy wait is made, after the transmission and before the read
BusyWaitBetween(ev, transmit, read) ==
    /\ EventAt(ev, "busy_delay") > EventAt(ev, transmit)
    /\ EventAt(ev, "busy_delay") < EventAt(ev, read)

\* the post-processing wait is the last step, after read and decoding
PostWaitLast(ev, read, decode) ==
    /\ ev[Len(ev)] = "post_delay"
    /\ EventAt(ev, "post_delay") = Len(ev)
    /\ EventAt(ev, read) > 0
    /\ EventAt(ev, "post_delay") > EventAt(ev, read)
    /\ EventAt(ev, "post_delay") > EventAt(ev, decode)

\* an I2C exchange that transmitted a request, read the response and returned
I2cExchanged ==
    /\ i2c_result # I2cPending /\ i2c_result.pc = "done" /\ i2c_result.exec.ok
    /\ EventAt(i2c_result.exec.events, "write") > 0
I2cArgsUsed ==
    IF i2c_result.op = "general_call_reset" THEN GeneralCallArgs ELSE i2c_args
\* while the call is in the busy wait the request is transmitted and the
\* device is not read; while it is in the post-processing wait the device is
\* read and the response interpreted, and the caller has no result; a call
\* that returned made its waits at these places
I2cDelaysInOrder ==
    /\ I2cWaiting("busy_delay") =>
         /\ I2cArgsUsed.device_busy_delay > 0
         /\ i2c_result.exec.events = <<"write", "busy_delay">>
         /\ i2c_result.outcome = "running"
    /\ I2cWaiting("post_delay") =>
         /\ post_processing_time(I2cArgsUsed.post_processing_delay, I2cArgsUsed.response,
                                 I2cArgsUsed.device_busy_delay) > 0
         /\ PostWaitLast(i2c_result.exec.events, "read", "interpret")
         /\ (i2c_result.rx_len # None /\ i2c_result.rx_len # 0)
              => EventAt(i2c_result.exec.events, "interpret") > 0
         /\ i2c_result.outcome = "running"
    /\ I2cExchanged =>
         /\ I2cArgsUsed.device_busy_delay > 0
              => BusyWaitBetween(i2c_result.exec.events, "write", "read")
         /\ (I2cArgsUsed.post_processing_delay # None
             /\ I2cArgsUsed.post_processing_delay > 0)
              => PostWaitLast(i2c_result.exec.events, "read", "interpret")

\* an SHDLC exchange that returned
ShdlcExchanged == sh_result # ShdlcPending /\ sh_result.outcome = "return"
ShdlcPostWaitInOrder ==
    ShdlcExchanged /\ sh_args.post_processing_delay # None
      => PostWaitLast(sh_result.events, "transceive", "decode")

\* C30 as stated: in every exchange the busy_delay wait is made after the
\* request was transmitted and before the response is read, and the post_delay
\* wait after the response was read, validated and decoded and before
\* write_read returns, on the I2C channel and on the SHDLC channel.
C30_BothChannelsWait ==
    /\ I2cDelaysInOrder
    /\ ShdlcPostWaitInOrder
    /\ ShdlcExchanged /\ sh_args.device_busy_delay > 0
         => \E j \in 1..Len(sh_result.events) : sh_result.events[j] = "busy_delay"

\* C30: on the I2C channel the busy_delay wait is made after the request was
\* transmitted and before the response is read; the SHDLC channel makes no
\* busy_delay wait of its own and hands the larger of its channel delay and
\* busy_delay to the transceiver as the response timeout; on both channels the
\* post_delay wait is made after the response was read, validated and decoded
\* and before write_read returns.
C30_DelaysInOrder ==
    /\ I2cDelaysInOrder
    /\ ShdlcPostWaitInOrder
    /\ ShdlcExchanged
         => /\ \A j \in 1..Len(sh_result.events) : sh_result.events[j] # "busy_delay"
            /\ sh_result.timeout = Max(sh_channel_delay, sh_args.device_busy_delay)

\* an I2C exchange with both waits: write, busy wait, read, interpret, post wait
C30_Witness ==
    /\ I2cExchanged /\ i2c_result.op = "write_read"
    /\ i2c_args.device_busy_delay > 0 /\ i2c_args.post_processing_delay = 5
    /\ i2c_result.exec.events = <<"write", "busy_delay", "read", "interpret", "post_delay">>

\* an SHDLC exchange whose busy delay exceeds the channel delay
C30_WitnessShdlc ==
    /\ ShdlcExchanged /\ sh_args.device_busy_delay > sh_channel_delay
    /\ sh_result.timeout = sh_args.device_busy_delay
    /\ sh_result.events = <<"transceive", "decode", "post_delay">>

(* ---------------- C31: concurrent calls of MultiChannel.write_read --------- *)
\* C31: when several threads each call MultiChannel.write_read once in one
\* open transaction, every call is forwarded to the sub-channel the iterator
\* selected for it: no sub-channel receives two exchanges and no selected one
\* is skipped, under every interleaving of the two steps of the calls.
C31_DistinctSubChannels ==
    /\ \A t \in Threads :
         mt_pc[t] = "done" /\ mt_selected[t] # None => mt_target[t] = mt_selected[t]
    /\ \A c \in Chans : Len(chan_log[c]) <= 1

(* ---------------- C32: which returned bytes a checksum covers -------------- *)
\* strip_and_check_crc accepted the buffer it was given
FrAccepted == FrStripped /\ fr_wire.buf # PyNone /\ fr_stripped.ok

\* the bytes of the buffer that are not at a checksum position, in order
RECURSIVE DataBytesOf(_, _)
DataBytesOf(buf, i) ==
    IF i > Len(buf) THEN <<>>
    ELSE (IF i % 3 = 0 THEN <<>> ELSE <<buf[i]>>) \o DataBytesOf(buf, i + 1)

\* every checksum position of the buffer holds the checksum of the pair before
EveryChecksumVerified(buf, crc) ==
    \A i \in 1..Len(buf) :
       i % 3 = 0 => buf[i] = CrcApply(crc, buf[i - 2], buf[i - 1])

\* C32 as stated: every data byte returned by strip_and_check_crc is covered
\* by a checksum byte of the input that was verified; a buffer whose length is
\* not a multiple of 3 is not returned as valid data.
C32_EveryByteCovered ==
    FrAccepted =>
      /\ Len(fr_wire.buf) % 3 = 0
      /\ EveryChecksumVerified(fr_wire.buf, fr_crc)

\* C32: every checksum byte present in the input was verified against the two
\* bytes before it and the data returned are the other bytes in order; the one
\* or two bytes that end a buffer whose length is not a multiple of 3 are
\* returned although no checksum covers them.
C32_CoveredWhereChecksumPresent ==
    FrAccepted =>
      /\ EveryChecksumVerified(fr_wire.buf, fr_crc)
      /\ fr_stripped.data = (IF DataBytesOf(fr_wire.buf, 1) = <<>> THEN PyNone
                             ELSE DataBytesOf(fr_wire.buf, 1))

\* a frame ending in one data byte without checksum, changed in transit at that
\* byte and still accepted
C32_Witness ==
    /\ FrAccepted /\ fr_crc = "crc8" /\ fr_cmd_width = 0
    /\ fr_tx = <<3, 232, 137>> /\ fr_tamper = [at |-> 4, delta |-> 1]
    /\ fr_wire.buf = <<3, 232, 212, 138>>
    /\ fr_stripped.data = <<3, 232, 138>>

(* ---------------- C33: the address an exchange is sent to ------------------ *)
\* the address write_read is meant to use: the one passed, else the channel's
AddressMeant(passed, configured) == IF passed # None THEN passed ELSE configured

\* C33: an explicit target address passed to write_read, the address 0
\* included, is the address the transceiver is addressed with, and the
\* channel's configured address is used only when none is passed, on the I2C
\* channel and on the SHDLC channel.
C33_ExplicitAddressUsed ==
    /\ i2c_result # I2cPending
         => i2c_result.address = AddressMeant(I2cArgsUsed.slave_address, i2c_slave_address)
    /\ sh_result # ShdlcPending
         => sh_result.address = AddressMeant(sh_args.slave_address, sh_address)

(* ---------------- C34: a transaction opened again -------------------------- *)
\* a write_read made inside a with-block that was opened after an earlier one
\* was closed
CallInReopened == open /\ txn_count >= 2 /\ last.op = "write_read" /\ last.was_open

\* C34: opening a MultiChannel transaction again after a close restarts the
\* dispatch at channel 0, whatever the previous transaction did: the k-th
\* write_read of the new transaction (k <= N) is forwarded to channel k - 1, so
\* its first call goes to the first channel and N calls are available again.
C34_ReopenRestarts ==
    /\ (open /\ txn_count >= 2 /\ last.op = "enter") => channel_iterator = 0
    /\ (CallInReopened /\ last.nth <= NumChannels) =>
          /\ last.forwarded = last.nth - 1
          /\ last.result # "StopIteration"
          /\ Len(chan_log[last.nth - 1]) = 1

\* the last of the N calls of a third transaction reached the last channel
C34_Witness ==
    /\ CallInReopened /\ txn_count = 3 /\ last.nth = NumChannels
    /\ last.forwarded = NumChannels - 1
    /\ \A c \in Chans : Len(chan_log[c]) = 1

(* ---------------- C35: sequential mode stops at the first failure ---------- *)
\* C35: in sequential mode the drivers are invoked one at a time in channel
\* order; when the driver of channel k fails the drivers of the later channels
\* are not invoked, the failure propagates to the caller, and the MultiChannel
\* transaction is closed with iterator and active channel cleared.
C35_SequentialStopsAtFailure ==
    md_mode = "seq" =>
      /\ \A i \in 1..Len(finish_order) : finish_order[i] = i - 1
      /\ \A i \in Chans : started[i] = (IF i < Len(finish_order) THEN 1 ELSE 0)
      /\ md_exc.exc # "None" =>
           /\ md_pc \in {"seq_exit", "raised", "idle"}
           /\ worker[md_exc.chan] = "failed" /\ md_exc.exc = produced[md_exc.chan]
           /\ \A j \in Chans : j < md_exc.chan => worker[j] = "ok"
           /\ \A j \in Chans : j > md_exc.chan => started[j] = 0 /\ worker[j] = "none"
      /\ (\E i \in Chans : worker[i] = "failed") => md_exc.exc # "None"
      /\ md_pc = "raised" =>
           /\ md_exc.exc # "None" /\ md_ret = <<>>
           /\ ~open /\ channel_iterator = None /\ active_channel = None

\* the second driver failed: the first had returned and the third was not run
C35_Witness ==
    /\ md_mode = "seq" /\ md_pc = "raised" /\ md_exc.chan = 1
    /\ worker[0] = "ok" /\ worker[1] = "failed" /\ started[NumChannels - 1] = 0
    /\ ~open /\ channel_iterator = None

(* ---------------- C36: the failure delivered in concurrent mode ------------ *)
\* the failing channels of the operation
FailedChans == { i \in Chans : worker[i] = "failed" }

\* C36: in concurrent mode the failure delivered to the caller is that of the
\* failing channel with the lowest index, in whatever order the workers
\* failed, and the MultiChannel transaction stays open until every worker has
\* completed.
C36_LowestFailureDelivered ==
    md_mode = "par" =>
      /\ md_pc = "raised" =>
           /\ md_exc.chan \in FailedChans
           /\ \A j \in FailedChans : md_exc.chan <= j
           /\ md_exc.exc = produced[md_exc.chan]
      /\ (\E i \in Chans : worker[i] = "running") =>
           open /\ channel_iterator # None
      /\ (md_pc \in {"returned", "raised"}) =>
           ~open /\ \A i \in Chans : worker[i] \in Done

\* two workers failed, the one with the higher index first
C36_Witness ==
    /\ md_mode = "par" /\ md_pc = "raised"
    /\ worker[0] = "failed" /\ worker[NumChannels - 1] = "failed"
    /\ finish_order[1] = NumChannels - 1
    /\ md_exc.chan = 0

(* ---------------- C37: the I2C mock's queue between exchanges -------------- *)
\* the command id the mock reads off the request of the last exchange
ImOwnCommand ==
    BytesToInt(">", SubSeq(im_result.args.tx_bytes, 1,
                           Min(Len(im_result.args.tx_bytes), im_cmd_width)))

\* C37: after every exchange through an I2C mock channel, successful or
\* failing, the mock's request queue is empty, and every read was answered for
\* the command id written in its own exchange, or for the last-seen command id
\* when the exchange wrote nothing.
C37_QueueEmptyBetweenExchanges ==
    /\ im_queue = <<>>
    /\ (im_result.op = "exchange" /\ im_result.read_done) =>
         /\ im_result.asked.cmd = im_last_command
         /\ im_result.wrote => im_result.asked.cmd = ImOwnCommand
         /\ ~im_result.wrote => im_result.args.tx_bytes = <<>>

\* a read without a write of its own, answered for the command of the
\* exchange before
C37_Witness ==
    /\ im_count = 2 /\ im_result.op = "exchange" /\ im_result.read_done
    /\ im_result.args.tx_bytes = <<>> /\ im_cmd_width = 2
    /\ im_result.asked.cmd = 9238 /\ im_queue = <<>>

\* a failing exchange: the read was refused for its address after the request
\* had been taken off the queue
C37_WitnessFailing ==
    /\ im_result.op = "exchange" /\ im_result.wrote /\ ~im_result.read_done
    /\ im_result.exc = "AssertionError" /\ im_queue = <<>>

(* ------------- C38: the channels of the currently open bracket ------------- *)
\* one channel per selected port of every configuration, on the serial ports
\* opened by the gen-th __enter__
RECURSIVE ChannelsOfBracket(_, _, _)
ChannelsOfBracket(configs, k, gen) ==
    IF k > Len(configs) THEN <<>>
    ELSE [j \in 1..Len(PortList(configs[k])) |->
              [link |-> Link(gen, k), port |-> PortList(configs[k])[j]]]
         \o ChannelsOfBracket(configs, k + 1, gen)

\* C38: after any sequence of enter/exit brackets of an
\* I2cMultiSensorBridgeConnection, get_multi_channel called inside the open
\* bracket returns exactly one channel per selected port of the configuration,
\* each bound to a serial port that is currently open, and no channel of an
\* earlier bracket.
C38_ChannelsOfOpenBracket ==
    (br_kind = "multi" /\ br_pc = "in"
       /\ br_last.op = "get_multi_channel" /\ br_last.exc = "None") =>
      /\ br_last.channels = ChannelsOfBracket(br_configs, 1, br_count)
      /\ \A j \in 1..Len(br_last.channels) : br_last.channels[j].link \in br_links

(* ------------------ C39: assigning and reading a bit field ----------------- *)
\* bit i of an integer
BitOf(x, i) == (x \div Pow2(i)) % 2

\* the positions of a field
FieldBits(f) == f.offset..(f.offset + f.width - 1)

\* above the highest position a field of the model reaches
AboveFields == MaxBits + 2

\* C39: assigning v to a bit field with offset o and width w makes a
\* subsequent read of the field return v mod 2^w, which is
\* (value >> o) & (2^w - 1), and leaves every bit of the integer outside
\* positions o..o+w-1 as it was.
C39_FieldAssignment ==
    bf_last.assigned.present =>
      LET f == bf_last.assigned.field
          v == bf_last.assigned.v
          before == bf_last.assigned.before
      IN /\ (bf_last.op = "get" /\ bf_last.field = f) =>
              /\ bf_last.got = v % Pow2(f.width)
              /\ bf_last.got = (bf_value \div Pow2(f.offset)) % Pow2(f.width)
         /\ \A i \in (0..(AboveFields - 1)) \ FieldBits(f) :
              BitOf(bf_value, i) = BitOf(before, i)
         /\ bf_value \div Pow2(AboveFields) = before \div Pow2(AboveFields)

\* a negative value too wide for the field was assigned over set bits of a
\* negative integer and read back
C39_Witness ==
    /\ bf_last.op = "get" /\ bf_last.assigned.present
    /\ bf_last.field = bf_last.assigned.field
    /\ bf_last.field = BitField(2, 3)
    /\ bf_last.assigned.v = 0 - 3 /\ bf_last.assigned.before = 0 - 1
    /\ bf_last.got = 5 /\ bf_value = 0 - 9
====
